---- MODULE Spec2Model ----
(***************************************************************************)
(* Graph construction engine of biz_opps: the node / relationship upsert   *)
(* protocol (neo4j/construction.py), the schema validation layer           *)
(* (neo4j/validation.py) and the enrichment relationship builder           *)
(* (etl/geoenrichment.py), modelled over an abstract property graph store. *)
(*                                                                         *)
(* Python dicts are functions from a finite set of string keys.  Property  *)
(* values held by the store are strings; NoneVal is Python None / Cypher   *)
(* null.                                                                   *)
(***************************************************************************)
EXTENDS Integers, FiniteSets, Sequences, TLC

VARIABLES
    nodes,      \* the nodes of the store: [id, label, props]
    rels,       \* its relationships: [id, type, start, end, props]
    last,       \* the last call issued against the store, its result and the store before it
    runs,       \* number of enrichment population runs done
    vin,        \* the entity last handed to validate_data
    vout,       \* what validate_data did with it
    cons,       \* the uniqueness constraints of the store: [name, label, property, is_relationship]
    layers,     \* the spatial layers of the store: layer name -> ids of the nodes registered in it
    pop         \* the populate script: its arguments and the component it is at

vars == <<nodes, rels, last, runs, vin, vout, cons, layers, pop>>

\* ------------------------------ Python / Cypher values ---------------------

NoneVal == "None"

EmptyDict == [k \in {} |-> NoneVal]

\* match_keys left at its default (None) in create_node
NoMatchKeys == {NoneVal}

\* dict.get(k)
Get(d, k) == IF k \in DOMAIN d THEN d[k] ELSE NoneVal

\* {k: d[k] for k in ks}
Restrict(d, ks) == [k \in ks |-> d[k]]

\* {**d, **e}
Update(d, e) ==
    [k \in DOMAIN d \cup DOMAIN e |-> IF k \in DOMAIN e THEN e[k] ELSE d[k]]

\* the keys of a Cypher map that carry a non-null value
NonNull(m) == {k \in DOMAIN m : m[k] # NoneVal}

\* Cypher  SET x = $map : the property set becomes the map (null entries dropped)
SetReplace(props, m) == Restrict(m, NonNull(m))

\* Cypher  SET x += $map : entries of the map are written over the stored ones,
\* a null entry removes the property, properties the map does not name stay
SetMerge(props, m) ==
    [k \in (DOMAIN props \ DOMAIN m) \cup NonNull(m) |->
        IF k \in DOMAIN m THEN m[k] ELSE props[k]]

\* a node pattern (n:label {k: $k, ...}); a null parameter matches nothing
Matches(n, label, sel) ==
    /\ n.label = label
    /\ \A k \in DOMAIN sel :
          /\ sel[k] # NoneVal
          /\ k \in DOMAIN n.props
          /\ n.props[k] = sel[k]

\* ------------------------------ the store ----------------------------------

\* element id of a node the store creates for MERGE (n:label {merge_props})
FreshNodeId(ns, label, merge_props) ==
    LET used == {n.id.n : n \in {m \in ns : m.id.label = label /\ m.id.key = merge_props}}
    IN [label |-> label, key |-> merge_props,
        n |-> CHOOSE i \in 0..Cardinality(used) :
                 i \notin used /\ \A j \in 0..(i - 1) : j \in used]

FreshRelId(rs, type, a, b) ==
    LET used == {r.id.n : r \in {q \in rs : q.type = type /\ q.start = a /\ q.end = b}}
    IN [type |-> type, start |-> a, end |-> b,
        n |-> CHOOSE i \in 0..Cardinality(used) :
                 i \notin used /\ \A j \in 0..(i - 1) : j \in used]

\* mutant of MergeMatched: CREATE instead of MERGE
MergeMatchedNever(ns, label, merge_props) == {}

\* the nodes MERGE (n:label {merge_props}) binds when it finds any
MergeMatched(ns, label, merge_props) ==
    {n \in ns : Matches(n, label, merge_props)}

\* mutant of WriteNodeProps: SET n = $remaining_props with the key kept
WriteNodePropsReplace(props, merge_props, remaining_props) ==
    Update(merge_props, SetReplace(props, remaining_props))

\* SET n += $remaining_props
WriteNodeProps(props, merge_props, remaining_props) ==
    SetMerge(props, remaining_props)

\* the exception the try block of create_node raises, "none" when it runs through
create_node_error(ns, label, properties, match_keys) ==
    IF match_keys = NoMatchKeys THEN "TypeError"    \* 'NoneType' is not iterable
    ELSE IF ~(match_keys \subseteq DOMAIN properties) THEN "KeyError"
    ELSE IF \E k \in match_keys : properties[k] = NoneVal
    THEN "ClientError"               \* the store refuses MERGE on a null property
    ELSE "none"

\* mutant of Caught: except KeyError
CaughtKeyError(e) == e = "KeyError"

\* except Exception
Caught(e) == e # "none"

create_node(ns, label, properties, match_keys) ==
    LET e == create_node_error(ns, label, properties, match_keys)
    IN  IF e # "none"
        THEN [ok |-> FALSE, nodes |-> ns, node |-> {},
              raised |-> IF Caught(e) THEN "none" ELSE e]
        ELSE
          LET merge_props == Restrict(properties, match_keys)
              remaining_props == Restrict(properties, DOMAIN properties \ match_keys)
              matched == MergeMatched(ns, label, merge_props)
          IN  IF matched = {}
              THEN LET id == FreshNodeId(ns, label, merge_props)
                       n == [id |-> id, label |-> label,
                             props |-> WriteNodeProps(merge_props, merge_props,
                                                      remaining_props)]
                   IN [ok |-> TRUE, nodes |-> ns \cup {n}, node |-> {id},
                       raised |-> "none"]
              ELSE [ok |-> TRUE,
                    nodes |-> {IF n \in matched
                               THEN [n EXCEPT !.props =
                                       WriteNodeProps(n.props, merge_props,
                                                      remaining_props)]
                               ELSE n : n \in ns},
                    node |-> {n.id : n \in matched},
                    raised |-> "none"]

\* mutant of MergeRelMatched: CREATE (a)-[r]->(b) instead of MERGE
MergeRelMatchedNever(rs, type, a, b) == {}

\* the relationships MERGE (a)-[r:type]->(b) binds when it finds any
MergeRelMatched(rs, type, a, b) ==
    {r \in rs : r.type = type /\ r.start = a /\ r.end = b}

\* mutant of WriteRelProps: SET r += $rel_properties
WriteRelPropsMerge(props, rel_properties) == SetMerge(props, rel_properties)

\* SET r = $rel_properties
WriteRelProps(props, rel_properties) == SetReplace(props, rel_properties)

\* mutant of EndpointPairs: the end node is matched by its label alone
EndpointPairsAnyEnd(ns, start_label, start_sel, end_label, end_sel) ==
    {n \in ns : Matches(n, start_label, start_sel)}
        \X {n \in ns : n.label = end_label}

\* the rows of  MATCH (a:start_label {..})  MATCH (b:end_label {..})
EndpointPairs(ns, start_label, start_sel, end_label, end_sel) ==
    {n \in ns : Matches(n, start_label, start_sel)}
        \X {n \in ns : Matches(n, end_label, end_sel)}

\* c.rel_properties is the dict the query receives: rel_properties or {}
create_relationship(ns, rs, c) ==
    LET failure == [ok |-> FALSE, wrote |-> FALSE, rels |-> rs]
    IN  IF ~(c.start_match_keys \subseteq DOMAIN c.start_props)
           \/ ~(c.end_match_keys \subseteq DOMAIN c.end_props)
        THEN failure                       \* KeyError
        ELSE
          LET params == Update(Restrict(c.start_props, c.start_match_keys),
                               Restrict(c.end_props, c.end_match_keys))
              pairs == EndpointPairs(ns, c.start_label,
                                     Restrict(params, c.start_match_keys),
                                     c.end_label,
                                     Restrict(params, c.end_match_keys))
              bound == UNION {MergeRelMatched(rs, c.rel_type, p[1].id, p[2].id) :
                                p \in pairs}
              created == {[id |-> FreshRelId(rs, c.rel_type, p[1].id, p[2].id),
                           type |-> c.rel_type, start |-> p[1].id, end |-> p[2].id,
                           props |-> WriteRelProps(EmptyDict, c.rel_properties)] :
                          p \in {q \in pairs :
                                   MergeRelMatched(rs, c.rel_type, q[1].id, q[2].id) = {}}}
          IN  IF pairs = {}
              THEN failure                 \* result.single() is None
              ELSE [ok |-> NonNull(c.rel_properties) # {},   \* bool(r): len of its properties
                    wrote |-> TRUE,
                    rels |-> {IF r \in bound
                              THEN [r EXCEPT !.props =
                                      WriteRelProps(r.props, c.rel_properties)]
                              ELSE r : r \in rs} \cup created]


\* ------------------------------ calls issued against the store --------------

CityIds == {"c1", "c2"}
CityNames == {"n1", "n2"}
ZipcodeNumbers == {"z1"}
Wkts == {"w1", "w2"}

\* the match_keys every caller passes for a label (the natural key of the label)
KeyOf(label) ==
    CASE label = "City" -> {"city_id"}
      [] label = "Zipcode" -> {"zipcode_number"}
      [] label = "Neighborhood" -> {"neighborhood_id"}
      [] label = "BlockGroup" -> {"ct_block_group"}
      [] label = "Business" -> {"business_id"}
      [] label = "TotalPopulation" -> {"level"}
      [] label = "CrimeIndex" -> {"category"}
      [] OTHER -> {}

\* create_node as create_city_nodes and create_zipcode_nodes call it
CityNodeCalls ==
    {[label |-> "City",
      properties |-> [city_id |-> i, city_name |-> n],
      match_keys |-> KeyOf("City")] : i \in CityIds, n \in CityNames}

ZipcodeNodeCalls ==
    {[label |-> "Zipcode",
      properties |-> [zipcode_number |-> z],
      match_keys |-> KeyOf("Zipcode")] : z \in ZipcodeNumbers}
    \cup
    {[label |-> "Zipcode",
      properties |-> [zipcode_number |-> z, wkt |-> w],
      match_keys |-> KeyOf("Zipcode")] : z \in ZipcodeNumbers, w \in Wkts \cup {NoneVal}}

\* calls the signature of create_node admits and no builder makes: match_keys
\* left at None, a match key that properties lacks, a match key that is None
OddNodeCalls ==
    {[label |-> "City", properties |-> [city_id |-> "c1", city_name |-> "n1"],
      match_keys |-> NoMatchKeys],
     [label |-> "City", properties |-> [city_name |-> "n1"],
      match_keys |-> KeyOf("City")],
     [label |-> "Zipcode", properties |-> [zipcode_number |-> NoneVal],
      match_keys |-> KeyOf("Zipcode")]}

NodeCalls == CityNodeCalls \cup ZipcodeNodeCalls \cup OddNodeCalls

\* create_relationship as create_city_relationships calls it (IS_WITHIN to the
\* zipcodes of the row, HAS_NEIGHBOR to the city of a listed name), and with
\* the other property sets its signature admits for the same pair
IsWithinProps ==
    {EmptyDict,
     [containment_type |-> "Full"],
     [containment_type |-> "Partial", overlap_ratio |-> "0.5"]}

IsWithinCalls ==
    {[start_label |-> "City", start_props |-> [city_id |-> i],
      start_match_keys |-> {"city_id"},
      end_label |-> "Zipcode", end_props |-> [zipcode_number |-> z],
      end_match_keys |-> {"zipcode_number"},
      rel_type |-> "IS_WITHIN", rel_properties |-> p] :
        i \in CityIds, z \in ZipcodeNumbers, p \in IsWithinProps}

HasNeighborCalls ==
    {[start_label |-> "City", start_props |-> [city_id |-> i],
      start_match_keys |-> {"city_id"},
      end_label |-> "City", end_props |-> [city_name |-> n],
      end_match_keys |-> {"city_name"},
      rel_type |-> "HAS_NEIGHBOR", rel_properties |-> [neighbor_type |-> "City"]] :
        i \in CityIds, n \in CityNames}

RelCalls == IsWithinCalls \cup HasNeighborCalls

NoCall == [op |-> "init", call |-> EmptyDict, ok |-> FALSE,
           pre_nodes |-> {}, pre_rels |-> {}]

\* ------------------------------ actions -------------------------------------

CreateNode(c) ==
    LET r == create_node(nodes, c.label, c.properties, c.match_keys)
    IN  /\ nodes' = r.nodes
        /\ rels' = rels
        /\ last' = [op |-> "create_node", call |-> c, ok |-> r.ok,
                    raised |-> r.raised, pre_nodes |-> nodes, pre_rels |-> rels]
        /\ UNCHANGED <<runs, vin, vout, cons, layers, pop>>

\* create_node when session.run raises a driver error (the store is unreachable)
CreateNodeStoreError(c) ==
    /\ create_node_error(nodes, c.label, c.properties, c.match_keys) = "none"
    /\ last' = [op |-> "create_node", call |-> c, ok |-> FALSE,
                raised |-> IF Caught("ServiceUnavailable") THEN "none"
                           ELSE "ServiceUnavailable",
                pre_nodes |-> nodes, pre_rels |-> rels]
    /\ UNCHANGED <<nodes, rels, runs, vin, vout, cons, layers, pop>>

CreateRelationship(c) ==
    LET r == create_relationship(nodes, rels, c)
    IN  /\ nodes' = nodes
        /\ rels' = r.rels
        /\ last' = [op |-> "create_relationship", call |-> c, ok |-> r.ok,
                    pre_nodes |-> nodes, pre_rels |-> rels]
        /\ UNCHANGED <<runs, vin, vout, cons, layers, pop>>

\* the populate script before it is started
NoPopulate ==
    [pc |-> "idle", cleanup |-> FALSE, selected |-> {}, raised |-> "none",
     include |-> [none |-> TRUE, names |-> {}],
     exclude |-> [none |-> TRUE, names |-> {}], executed |-> {}]

NoValidation == [op |-> "none", label |-> "", properties |-> EmptyDict,
                 pc |-> EmptyDict, is_relationship |-> FALSE]

Init ==
    /\ nodes = {}
    /\ rels = {}
    /\ last = NoCall
    /\ runs = 0
    /\ vin = NoValidation
    /\ vout = "none"
    /\ cons = {}
    /\ layers = EmptyDict
    /\ pop = NoPopulate

Next ==
    \/ \E c \in NodeCalls : CreateNode(c)
    \/ \E c \in NodeCalls : CreateNodeStoreError(c)
    \/ \E c \in RelCalls : CreateRelationship(c)

Spec == Init /\ [][Next]_vars

\* ------------------------------ enrichment builder -------------------------

\* bound: population runs of the enrichment component in one behaviour
MaxRuns == 2

\* bound: rows of the enrichment table handed to one run
MaxRows == 2

\* enum values the schema declares for the category property of a label
EnumValues(label) ==
    CASE label = "TotalPopulation" -> <<"LOW", "MEDIUM", "HIGH">>
      [] label = "CrimeIndex" ->
            <<"SAFEST", "SAFE", "MODERATE", "UNSAFE", "MOST_UNSAFE">>
      [] OTHER -> <<>>

\* the enrichment labels of this model, in the order the builders visit them
EnrichmentTypes == <<"TotalPopulation", "CrimeIndex">>

\* str() of the numbers the rows carry
Str(v) ==
    CASE v = 1 -> "1"
      [] v = 2 -> "2"
      [] v = 79 -> "79"
      [] v = 500 -> "500"
      [] v = 999 -> "999"
      [] v = 2001 -> "2001"
      [] OTHER -> "?"

\* string concatenation of two rendered numbers
Concat(a, b) ==
    CASE a = "1" /\ b = "1" -> "11"
      [] a = "1" /\ b = "2" -> "12"
      [] OTHER -> "?"

determine_population_level(value) ==
    LET category == IF value < 1000 THEN "LOW"
                    ELSE IF value <= 2000 THEN "MEDIUM"
                    ELSE "HIGH"
    IN [category_combinations |-> <<[level |-> category]>>,
        source_values |-> <<value>>]

determine_crime_level(value) ==
    LET category == IF value < 80 THEN "SAFEST"
                    ELSE IF value <= 119 THEN "SAFE"
                    ELSE IF value <= 199 THEN "MODERATE"
                    ELSE IF value <= 499 THEN "UNSAFE"
                    ELSE "MOST_UNSAFE"
    IN [category_combinations |-> <<[category |-> category]>>,
        source_values |-> <<value>>]

\* the enrichments dict of one row
enrichments(row) ==
    [t \in {EnrichmentTypes[i] : i \in 1..Len(EnrichmentTypes)} |->
        IF t = "TotalPopulation" THEN determine_population_level(row.totpop_cy)
        ELSE determine_crime_level(row.crmcytotc)]

ct_block_group(row) == Concat(Str(row.tractce), Str(row.blkgrpce))

\* mutant of EnrichmentRelCall: the relationship is written without its properties
EnrichmentRelCallNoProps(ct, enrichment_type, combination, source_value) ==
    [start_label |-> "BlockGroup", start_props |-> [ct_block_group |-> ct],
     start_match_keys |-> {"ct_block_group"},
     end_label |-> enrichment_type, end_props |-> combination,
     end_match_keys |-> DOMAIN combination,
     rel_type |-> "HAS_ENRICHMENT", rel_properties |-> EmptyDict]

\* the create_relationship call for one (combination, source_value) of a row
EnrichmentRelCall(ct, enrichment_type, combination, source_value) ==
    [start_label |-> "BlockGroup", start_props |-> [ct_block_group |-> ct],
     start_match_keys |-> {"ct_block_group"},
     end_label |-> enrichment_type, end_props |-> combination,
     end_match_keys |-> DOMAIN combination,
     rel_type |-> "HAS_ENRICHMENT",
     rel_properties |-> [source_value |-> Str(source_value)]]

\* the calls of one row, enrichment type by enrichment type
RECURSIVE RowRelCalls(_, _)
RowRelCalls(row, i) ==
    IF i > Len(EnrichmentTypes) THEN <<>>
    ELSE LET t == EnrichmentTypes[i]
             e == enrichments(row)[t]
         IN [j \in 1..Len(e.category_combinations) |->
                EnrichmentRelCall(ct_block_group(row), t,
                                  e.category_combinations[j], e.source_values[j])]
            \o RowRelCalls(row, i + 1)

RECURSIVE DfRelCalls(_)
DfRelCalls(df) ==
    IF df = <<>> THEN <<>> ELSE RowRelCalls(Head(df), 1) \o DfRelCalls(Tail(df))

\* the create_node calls of create_enrichment_nodes: one per combination of the
\* declared enum values of every enrichment label
\* enum is the "enum" list the schema declares for the category property of
\* every enrichment label
RECURSIVE EnrichmentNodeCalls(_, _)
EnrichmentNodeCalls(enum, i) ==
    IF i > Len(EnrichmentTypes) THEN <<>>
    ELSE LET t == EnrichmentTypes[i]
             prop == CHOOSE k \in KeyOf(t) : TRUE
         IN [j \in 1..Len(enum[t]) |->
                [label |-> t,
                 properties |-> [k \in {prop} |-> enum[t][j]],
                 match_keys |-> {prop}]]
            \o EnrichmentNodeCalls(enum, i + 1)

RECURSIVE create_enrichment_nodes(_, _)
create_enrichment_nodes(ns, calls) ==
    IF calls = <<>> THEN ns
    ELSE LET c == Head(calls)
         IN create_enrichment_nodes(
                create_node(ns, c.label, c.properties, c.match_keys).nodes,
                Tail(calls))

\* every create_relationship call is counted a success: its return value is
\* not looked at and it raises nothing
RECURSIVE create_enrichment_relationships(_, _, _)
create_enrichment_relationships(ns, rs, calls) ==
    IF calls = <<>> THEN [rels |-> rs, success_count |-> 0, failed_instances |-> <<>>]
    ELSE LET r == create_relationship(ns, rs, Head(calls))
             rest == create_enrichment_relationships(ns, r.rels, Tail(calls))
         IN [rest EXCEPT !.success_count = @ + 1]

EnrichmentRows ==
    {[tractce |-> 1, blkgrpce |-> 1, totpop_cy |-> 500, crmcytotc |-> 79],
     [tractce |-> 1, blkgrpce |-> 1, totpop_cy |-> 999, crmcytotc |-> 79],
     [tractce |-> 1, blkgrpce |-> 1, totpop_cy |-> 2001, crmcytotc |-> 500],
     [tractce |-> 1, blkgrpce |-> 2, totpop_cy |-> 500, crmcytotc |-> 79]}

EnrichmentTables == UNION {[1..n -> EnrichmentRows] : n \in 1..MaxRows}

\* create_node as create_block_group_nodes calls it
BlockGroupNodeCalls ==
    {[label |-> "BlockGroup",
      properties |-> [ct_block_group |-> "11", census_tract |-> "1",
                      block_group |-> "1"],
      match_keys |-> KeyOf("BlockGroup")]}

\* the enum lists of the schema, and those of a schema that declares no HIGH
\* population level
EnumDeclarations ==
    LET declared == [t \in {EnrichmentTypes[i] : i \in 1..Len(EnrichmentTypes)} |->
                        EnumValues(t)]
    IN [full |-> declared,
        short |-> [declared EXCEPT !.TotalPopulation = <<"LOW", "MEDIUM">>]]

\* populate_geoenrichments without cleanup
PopulateGeoenrichments(enum, df) ==
    LET ns == create_enrichment_nodes(nodes, EnrichmentNodeCalls(enum, 1))
        r == create_enrichment_relationships(ns, rels, DfRelCalls(df))
    IN  /\ runs < MaxRuns
        /\ runs' = runs + 1
        /\ nodes' = ns
        /\ rels' = r.rels
        /\ last' = [op |-> "populate_geoenrichments",
                    call |-> [df |-> df, enum |-> enum,
                              success_count |-> r.success_count,
                              failed_instances |-> r.failed_instances],
                    ok |-> TRUE, pre_nodes |-> nodes, pre_rels |-> rels]
        /\ UNCHANGED <<vin, vout, cons, layers, pop>>

NextRerun ==
    \/ \E c \in BlockGroupNodeCalls : CreateNode(c)
    \/ \E df \in EnrichmentTables : PopulateGeoenrichments(EnumDeclarations.full, df)

SpecRerun == Init /\ [][NextRerun]_vars

NextDeclared ==
    \/ \E c \in BlockGroupNodeCalls : CreateNode(c)
    \/ \E enum \in {EnumDeclarations.full, EnumDeclarations.short} :
          \E df \in {d \in EnrichmentTables :
                        \A i \in 1..Len(d) : d[i].blkgrpce = 1 /\ d[i].totpop_cy # 999} :
             PopulateGeoenrichments(enum, df)

SpecDeclared == Init /\ [][NextDeclared]_vars

\* ------------------------------ validation ---------------------------------

\* A Python value handed to the validator: its type t, its number v (True is
\* 1), its text s, and for a dict the types of its latitude and longitude
\* items ("" when it has no such item).
PyNone == [t |-> "none", v |-> 0, s |-> "", lat |-> "", lon |-> ""]
PyStr(x) == [t |-> "str", v |-> 0, s |-> x, lat |-> "", lon |-> ""]
PyInt(x) == [t |-> "int", v |-> x, s |-> "", lat |-> "", lon |-> ""]
PyFloat(x) == [t |-> "float", v |-> x, s |-> "", lat |-> "", lon |-> ""]
PyBool(x) == [t |-> "bool", v |-> IF x THEN 1 ELSE 0, s |-> "", lat |-> "", lon |-> ""]
PyList == [t |-> "list", v |-> 0, s |-> "", lat |-> "", lon |-> ""]
PyDict(lat, lon) == [t |-> "dict", v |-> 0, s |-> "", lat |-> lat, lon |-> lon]

\* bounds of the range [min, max] the schemas of this model declare
RangeMin == 1
RangeMax == 5

\* isinstance(x, (int, float)); bool is a subclass of int
IsNumber(x) == x.t \in {"int", "float", "bool"}

\* Python ==
PyEq(a, b) ==
    IF IsNumber(a) /\ IsNumber(b) THEN a.v = b.v
    ELSE a = b

\* x in list
PyIn(x, list) == \E i \in 1..Len(list) : PyEq(x, list[i])

\* str.upper() on the type tags a schema may carry
Upper(tag) ==
    CASE tag = "string" -> "STRING"
      [] tag = "integer" -> "INTEGER"
      [] tag = "float" -> "FLOAT"
      [] tag = "boolean" -> "BOOLEAN"
      [] tag = "point" -> "POINT"
      [] tag = "list" -> "LIST"
      [] tag = "map" -> "MAP"
      [] tag = "enum" -> "ENUM"
      [] OTHER -> tag

\* VALIDATORS.get(tag, lambda x: False)(x): "True", "False", or the TypeError of
\* calling the two-argument ENUM validator with one argument
VALIDATORS(tag, x) ==
    CASE tag = "STRING" -> IF x.t = "str" THEN "True" ELSE "False"
      [] tag = "INTEGER" -> IF x.t \in {"int", "bool"} THEN "True" ELSE "False"
      [] tag = "FLOAT" -> IF x.t \in {"float", "int", "bool"} THEN "True" ELSE "False"
      [] tag = "BOOLEAN" -> IF x.t = "bool" THEN "True" ELSE "False"
      [] tag = "POINT" ->
            IF /\ x.t = "dict"
               /\ x.lat \in {"int", "float", "bool"}
               /\ x.lon \in {"int", "float", "bool"}
            THEN "True" ELSE "False"
      [] tag = "LIST" -> IF x.t = "list" THEN "True" ELSE "False"
      [] tag = "MAP" -> IF x.t = "dict" THEN "True" ELSE "False"
      [] tag = "ENUM" -> "TypeError"
      [] OTHER -> "False"

\* d.get(k) of a schema dict, read for its truth value, its string, its list
GetBool(d, k) == IF k \in DOMAIN d THEN d[k] ELSE FALSE
GetStr(d, k) == IF k \in DOMAIN d THEN d[k] ELSE ""
GetList(d, k) == IF k \in DOMAIN d THEN d[k] ELSE <<>>
GetDict(d, k) == IF k \in DOMAIN d THEN d[k] ELSE EmptyDict

\* data["properties"].get(name)
GetValue(properties, name) ==
    IF name \in DOMAIN properties THEN properties[name] ELSE PyNone

\* the result is "ok" (returns) or the name of the exception raised
validate_property(node_or_rel_data, property_name, property_constraints) ==
    LET property_value == GetValue(node_or_rel_data.properties, property_name)
        exists == GetBool(property_constraints, "exists")
        property_type == GetStr(property_constraints, "type")
        enum == GetList(property_constraints, "enum")
        numeric_range == GetDict(property_constraints, "range")
        type_check == VALIDATORS(Upper(property_type), property_value)
    IN  IF exists /\ property_value = PyNone THEN "ValueError"
        ELSE IF ~exists /\ property_value = PyNone THEN "ok"
        ELSE IF property_type # "" /\ type_check # "True" THEN "TypeError"
        ELSE IF enum # <<>> /\ ~PyIn(property_value, enum) THEN "ValueError"
        ELSE IF numeric_range # EmptyDict
        THEN IF "min" \in DOMAIN numeric_range /\ ~IsNumber(property_value)
             THEN "TypeError"              \* '<' not supported between the operands
             ELSE IF "min" \in DOMAIN numeric_range
                     /\ property_value.v < numeric_range["min"]
             THEN "ValueError"
             ELSE IF "max" \in DOMAIN numeric_range /\ ~IsNumber(property_value)
             THEN "TypeError"
             ELSE IF "max" \in DOMAIN numeric_range
                     /\ property_value.v > numeric_range["max"]
             THEN "ValueError"
             ELSE "ok"
        ELSE "ok"

\* the keys of a schema entry in the order its items() yields them
EntryKeys(entry) ==
    IF "mappings" \in DOMAIN entry /\ "properties" \in DOMAIN entry
    THEN <<"properties", "mappings">>
    ELSE IF "properties" \in DOMAIN entry THEN <<"properties">>
    ELSE IF "mappings" \in DOMAIN entry THEN <<"mappings">>
    ELSE <<>>

\* mutant of ExtraProperties: the difference is taken the other way round
ExtraPropertiesReversed(properties, entry) ==
    DOMAIN entry["properties"] \ DOMAIN properties

\* the data keys the schema entry does not declare
ExtraProperties(properties, entry) ==
    DOMAIN properties \ DOMAIN entry["properties"]

\* the result of the first validate_property call that raises, "ok" when none does
RECURSIVE ValidateEach(_, _, _)
ValidateEach(node_or_rel_data, entry, keys) ==
    IF keys = <<>> THEN "ok"
    ELSE LET r == validate_property(node_or_rel_data, Head(keys), entry[Head(keys)])
         IN IF r # "ok" THEN r
            ELSE ValidateEach(node_or_rel_data, entry, Tail(keys))

\* the loops run over the items of the schema entry of the label, whose keys
\* are "properties" (and "mappings"), not over the declared properties
validate_data(node_or_rel_data, constraints, is_relationship) ==
    LET label == node_or_rel_data.label
        section == IF ~is_relationship THEN constraints.nodes
                   ELSE constraints.relationships
        node_or_rel_constraints == GetDict(section, label)
    IN  IF node_or_rel_constraints = EmptyDict THEN "ValueError"
        ELSE IF "properties" \notin DOMAIN node_or_rel_constraints THEN "KeyError"
        ELSE IF ExtraProperties(node_or_rel_data.properties,
                                node_or_rel_constraints) # {}
        THEN "ValueError"
        ELSE
          LET keys == EntryKeys(node_or_rel_constraints)
              missing_properties ==
                  {keys[i] : i \in {j \in 1..Len(keys) :
                      /\ "exists" \in DOMAIN node_or_rel_constraints[keys[j]]
                      /\ keys[j] \notin DOMAIN node_or_rel_data.properties}}
          IN  IF missing_properties # {} THEN "ValueError"
              ELSE ValidateEach(node_or_rel_data, node_or_rel_constraints, keys)

\* ------ the schemas and entities handed to the validator

TypeTags == {"STRING", "INTEGER", "FLOAT", "BOOLEAN", "POINT", "LIST", "MAP",
             "ENUM", "integer", "DATE"}

AllowList == <<PyStr("A"), PyStr("B")>>

\* declarations of the property "prop": a type tag, optionally exists, an
\* allow-list and a range
PropertyDeclarations ==
    {Update(Update(Update([type |-> t], e), a), r) :
        t \in TypeTags,
        e \in {EmptyDict, [exists |-> TRUE], [exists |-> FALSE]},
        a \in {EmptyDict, [enum |-> AllowList]},
        r \in {EmptyDict, [range |-> [min |-> RangeMin, max |-> RangeMax]]}}

\* a schema with one node label and one relationship type, both declaring
\* "prop" as pc; the node label also declares its required string key
SchemaWith(pc) ==
    [nodes |->
        [Entity |-> [properties |->
            [prop |-> pc, key_prop |-> [type |-> "STRING", exists |-> TRUE]]]],
     relationships |->
        [RELATES |-> [properties |-> [prop |-> pc],
                      mappings |-> [Entity |-> <<"Entity">>]]]]

PropValues ==
    {PyNone, PyStr("A"), PyStr("Z"),
     PyInt(RangeMin - 1), PyInt(RangeMin), PyInt(RangeMax), PyInt(RangeMax + 1),
     PyFloat(RangeMin), PyBool(TRUE), PyList,
     PyDict("float", "int"), PyDict("str", "float"), PyDict("float", "")}

\* the properties dicts of the entities: "prop" and "key_prop" absent or
\* present, with or without a property no schema declares
EntityProperties ==
    {Update(Update(p, k), x) :
        p \in {EmptyDict} \cup {[prop |-> v] : v \in PropValues},
        k \in {EmptyDict, [key_prop |-> PyStr("A")], [key_prop |-> PyInt(RangeMin)]},
        x \in {EmptyDict, [extra |-> PyStr("A")]}}

\* the calls made on the validator: validate_data on a node or a relationship,
\* and validate_property on the declaration of "prop" itself
ValidationCalls ==
    [op : {"validate_data"}, label : {"Entity", "RELATES", "Unknown"},
     properties : EntityProperties, pc : PropertyDeclarations,
     is_relationship : BOOLEAN]
    \cup
    [op : {"validate_property"}, label : {"Entity"},
     properties : EntityProperties, pc : PropertyDeclarations,
     is_relationship : {FALSE}]

ValidateData ==
    /\ vin.op = "validate_data"
    /\ vout = "pending"
    /\ vout' = validate_data([label |-> vin.label, properties |-> vin.properties],
                             SchemaWith(vin.pc), vin.is_relationship)
    /\ UNCHANGED <<nodes, rels, last, runs, vin, cons, layers, pop>>

ValidateProperty ==
    /\ vin.op = "validate_property"
    /\ vout = "pending"
    /\ vout' = validate_property([label |-> vin.label, properties |-> vin.properties],
                                 "prop", vin.pc)
    /\ UNCHANGED <<nodes, rels, last, runs, vin, cons, layers, pop>>

NextValidation ==
    \/ ValidateData
    \/ ValidateProperty

\* the validator is a pure function: every call starts from its own input
InitValidation ==
    /\ nodes = {}
    /\ rels = {}
    /\ last = NoCall
    /\ runs = 0
    /\ vin \in ValidationCalls
    /\ vout = "pending"
    /\ cons = {}
    /\ layers = EmptyDict
    /\ pop = NoPopulate

SpecValidation == InitValidation /\ [][NextValidation]_vars

\* ------------------------------ schema, constraints, layers, cleanup ------

\* The schema document load_constraints returns: node labels and relationship
\* types with their declared properties, spatial layers with their member labels.
Schema ==
  LET \* a property declaration carrying a unique spec
      UniqueString(constraint_name) ==
          [type |-> "STRING", exists |-> TRUE,
           unique |-> [constraint_name |-> constraint_name]]
  IN
    [nodes |->
        [BlockGroup |-> [properties |->
            [ct_block_group |-> UniqueString("unique_ct_block_group"),
             census_tract |-> [type |-> "STRING"],
             block_group |-> [type |-> "STRING"],
             object_id |-> [type |-> "STRING"],
             wkt |-> [type |-> "STRING"]]],
         Zipcode |-> [properties |->
            [zipcode_number |-> UniqueString("unique_zipcode_number"),
             wkt |-> [type |-> "STRING"]]],
         City |-> [properties |->
            [city_id |-> UniqueString("unique_city_id"),
             city_name |-> [type |-> "STRING"],
             state_name |-> [type |-> "STRING"],
             county |-> [type |-> "STRING"],
             is_unincorporated |-> [type |-> "BOOLEAN"]]],
         Business |-> [properties |->
            [business_id |-> UniqueString("unique_business_id"),
             business_name |-> [type |-> "STRING"],
             business_type |-> [type |-> "STRING"],
             latitude |-> [type |-> "FLOAT"],
             longitude |-> [type |-> "FLOAT"],
             address |-> [type |-> "STRING"],
             rating |-> [type |-> "FLOAT"],
             price_level |-> [type |-> "STRING"]]],
         TotalPopulation |-> [properties |->
            [level |-> [type |-> "ENUM"]]],
         CrimeIndex |-> [properties |->
            [category |-> [type |-> "ENUM"]]]],
     relationships |->
        [IS_WITHIN |-> [properties |->
            [containment_type |-> [type |-> "STRING"],
             overlap_ratio |-> [type |-> "FLOAT"]]],
         HAS_ENRICHMENT |-> [properties |->
            [source_value |-> [type |-> "STRING"]]]],
     spatial_layers |->
        [block_group_layer |-> [nodes |-> <<"BlockGroup">>],
         zipcode_layer |-> [nodes |-> <<"Zipcode">>],
         business_layer |-> [nodes |-> <<"Business">>]]]

\* the (label, property, constraint_name) of every property of a schema section
\* that carries a unique spec
UniqueSpecs(section, is_relationship) ==
    UNION {{[name |-> section[l].properties[p].unique.constraint_name,
             label |-> l, property |-> p, is_relationship |-> is_relationship] :
              p \in {q \in DOMAIN section[l].properties :
                        "unique" \in DOMAIN section[l].properties[q]}} :
           l \in DOMAIN section}

\* mutant of CaughtInConstraint: the error of CREATE CONSTRAINT is not handled
CaughtInConstraintNever(e) == FALSE

\* except Exception in create_uniqueness_constraint
CaughtInConstraint(e) == e # "none"

\* CREATE CONSTRAINT name FOR ... REQUIRE ... IS UNIQUE: the store refuses a name
\* it already holds and a constraint equivalent to one it already holds
create_uniqueness_constraint(cs, c) ==
    LET e == IF \E d \in cs :
                   \/ d.name = c.name
                   \/ /\ d.label = c.label
                      /\ d.property = c.property
                      /\ d.is_relationship = c.is_relationship
             THEN "ClientError" ELSE "none"
    IN  [cons |-> IF e = "none" THEN cs \cup {c} ELSE cs,
         raised |-> IF e = "none" \/ CaughtInConstraint(e) THEN "none" ELSE e]

\* create_uniqueness_constraint for every unique spec of the nodes, then of the
\* relationships, until one raises
create_constraints(cs, constraints) ==
    LET RECURSIVE CreateEach(_, _)
        CreateEach(held, specs) ==
            IF specs = {} THEN [cons |-> held, raised |-> "none"]
            ELSE LET c == CHOOSE x \in specs : TRUE
                     r == create_uniqueness_constraint(held, c)
                 IN IF r.raised # "none" THEN r
                    ELSE CreateEach(r.cons, specs \ {c})
        r == CreateEach(cs, UniqueSpecs(constraints.nodes, FALSE))
    IN  IF r.raised # "none" THEN r
        ELSE CreateEach(r.cons, UniqueSpecs(constraints.relationships, TRUE))

\* DROP CONSTRAINT name IF EXISTS for every unique spec of the schema
delete_all_constraints(cs, constraints) ==
    {c \in cs :
        c.name \notin {u.name : u \in UniqueSpecs(constraints.nodes, FALSE)
                                      \cup UniqueSpecs(constraints.relationships, TRUE)}}

\* a store as the builders and the cleanup see it
Store(ns, rs, ls) == [nodes |-> ns, rels |-> rs, layers |-> ls]

\* MATCH (n:label) DETACH DELETE n
delete_nodes_by_label(st, label) ==
    LET gone == {n.id : n \in {m \in st.nodes : m.label = label}}
    IN  Store({n \in st.nodes : n.id \notin gone},
              {r \in st.rels : r.start \notin gone /\ r.end \notin gone},
              [l \in DOMAIN st.layers |-> st.layers[l] \ gone])

RECURSIVE DeleteLabels(_, _)
DeleteLabels(st, labels) ==
    IF labels = <<>> THEN st
    ELSE DeleteLabels(delete_nodes_by_label(st, Head(labels)), Tail(labels))

\* mutant of remove_spatial_layer: the layer is left in place
remove_spatial_layer_kept(st, layer_name) == st

\* CALL spatial.removeLayer(name); the error for a layer the store does not
\* hold is caught inside remove_spatial_layer
remove_spatial_layer(st, layer_name) ==
    Store(st.nodes, st.rels,
          [l \in DOMAIN st.layers \ {layer_name} |-> st.layers[l]])

\* a Python list given as the tuple of its items, in the order of the schema
KeysOf(d) ==
    LET order == <<"BlockGroup", "Zipcode", "City", "Business", "TotalPopulation",
                   "CrimeIndex", "block_group_layer", "zipcode_layer",
                   "business_layer">>
        RECURSIVE Pick(_)
        Pick(i) == IF i > Len(order) THEN <<>>
                   ELSE IF order[i] \in DOMAIN d THEN <<order[i]>> \o Pick(i + 1)
                   ELSE Pick(i + 1)
    IN Pick(1)

\* The store and the constraints cleanup_neo4j leaves, and the exception that
\* leaves it ("none" when it returns). <<>> stands for an argument that is None
\* or []: nodes or list(constraints["nodes"].keys()), and likewise the layers.
cleanup_neo4j(st, cs, constraints, nodes_arg, spatial_layers_arg) ==
    LET node_labels == IF nodes_arg # <<>> THEN nodes_arg
                       ELSE KeysOf(constraints.nodes)
        spatial_layer_labels == IF spatial_layers_arg # <<>> THEN spatial_layers_arg
                                ELSE KeysOf(constraints.spatial_layers)
        RECURSIVE CleanupLayers(_, _)
        CleanupLayers(store, layer_labels) ==
            IF layer_labels = <<>> THEN [store |-> store, raised |-> "none"]
            ELSE LET layer == Head(layer_labels)
                 IN IF layer \notin DOMAIN constraints.spatial_layers
                    THEN [store |-> store, raised |-> "KeyError"]
                    ELSE CleanupLayers(
                            remove_spatial_layer(
                                DeleteLabels(store,
                                    constraints.spatial_layers[layer].nodes),
                                layer),
                            Tail(layer_labels))
        r == CleanupLayers(DeleteLabels(st, node_labels), spatial_layer_labels)
    IN  [store |-> r.store, cons |-> delete_all_constraints(cs, constraints),
         raised |-> r.raised]

\* ------------------------------ spatial layers ----------------------------

\* the layer exists afterwards, whether the check found it or addWKTLayer made it
init_wkt_layer(st, layer_name) ==
    IF layer_name \in DOMAIN st.layers THEN st
    ELSE Store(st.nodes, st.rels,
               [l \in DOMAIN st.layers \cup {layer_name} |->
                   IF l = layer_name THEN {} ELSE st.layers[l]])

\* the same for a point layer (addPointLayer)
init_point_layer(st, layer_name) ==
    IF layer_name \in DOMAIN st.layers THEN st
    ELSE Store(st.nodes, st.rels,
               [l \in DOMAIN st.layers \cup {layer_name} |->
                   IF l = layer_name THEN {} ELSE st.layers[l]])

\* CALL spatial.addNode(layer, n): fails when the layer or the node is not
\* there or the node has no geometry property (latitude and longitude in
\* business_layer, the one point layer; wkt in the others)
add_node_to_spatial_layer(st, node_ids, layer_name) ==
    IF /\ layer_name \in DOMAIN st.layers
       /\ node_ids # {}
       /\ \A n \in st.nodes : n.id \in node_ids =>
              IF layer_name = "business_layer"
              THEN {"latitude", "longitude"} \subseteq DOMAIN n.props
              ELSE "wkt" \in DOMAIN n.props
    THEN [ok |-> TRUE,
          store |-> Store(st.nodes, st.rels,
                          [st.layers EXCEPT ![layer_name] = @ \cup node_ids])]
    ELSE [ok |-> FALSE, store |-> st]

\* ------------------------------ node builders ------------------------------

\* The running state of a builder's loop: the store, the two tallies, the
\* value the local name properties is bound to ([unbound |-> ...] before its
\* first assignment) and the exception that left the builder ("none" while
\* none did).
Tally(st) ==
    [store |-> st, success_count |-> 0, failed_instances |-> <<>>,
     properties |-> [unbound |-> "properties"], raised |-> "none"]

\* failed_instances.append({key: properties.get(key_name, ""), "error": ...});
\* row is the position in the batch of the entity being processed
AppendFailure(t, key_name, error, row) ==
    [t EXCEPT !.failed_instances =
        Append(@, [key |-> IF key_name \in DOMAIN t.properties
                           THEN t.properties[key_name] ELSE "",
                   error |-> error, row |-> row])]

\* gdf is what get_block_group_data returned: [none |-> FALSE, rows |-> the
\* rows of the frame], or None ([none |-> TRUE]); down holds the positions at
\* which the store is unreachable
create_block_group_nodes(st, constraints, gdf, down) ==
    LET \* one pass of the loop body
        BlockGroupStep(t, row, i) ==
            IF row.wkb_geometry = NoneVal
            THEN \* row.wkb_geometry.wkt raises inside the try before
                 \* properties is bound again; the handler reads properties
                 IF "unbound" \in DOMAIN t.properties
                 THEN [t EXCEPT !.raised = "UnboundLocalError"]
                 ELSE AppendFailure(t, "ct_block_group", "AttributeError", i)
            ELSE
              LET properties == [ct_block_group |-> row.ctblockgroup,
                                 census_tract |-> row.tract,
                                 block_group |-> row.blockgroup,
                                 object_id |-> row.objectid,
                                 wkt |-> row.wkb_geometry]
                  bound == [t EXCEPT !.properties = properties]
                  valid == validate_data([label |-> "BlockGroup",
                                          properties |-> properties],
                                         constraints, FALSE)
                  made == create_node(t.store.nodes, "BlockGroup", properties,
                                      {"ct_block_group"})
                  st1 == Store(made.nodes, t.store.rels, t.store.layers)
                  added == add_node_to_spatial_layer(st1, made.node,
                                                     "block_group_layer")
              IN  IF valid # "ok"
                  THEN AppendFailure(bound, "ct_block_group", valid, i)
                  ELSE IF i \in down \/ ~made.ok
                  THEN AppendFailure(bound, "ct_block_group",
                                     "Failed to create BlockGroup node", i)
                  ELSE IF ~added.ok
                  THEN AppendFailure([bound EXCEPT !.store = st1], "ct_block_group",
                                     "Failed to add geometry to BlockGroup node", i)
                  ELSE [bound EXCEPT !.store = added.store, !.success_count = @ + 1]
        RECURSIVE BlockGroupLoop(_, _)
        BlockGroupLoop(t, i) ==
            IF i > Len(gdf.rows) \/ t.raised # "none" THEN t
            ELSE BlockGroupLoop(BlockGroupStep(t, gdf.rows[i], i), i + 1)
        t0 == Tally(init_wkt_layer(st, "block_group_layer"))
    IN  IF gdf.none
        THEN [t0 EXCEPT !.raised = "AttributeError"]   \* None has no iterrows
        ELSE BlockGroupLoop(t0, 1)

create_city_nodes(st, constraints, df, down) ==
    LET \* one pass of the loop body
        CityStep(t, row, i) ==
            LET properties == [city_id |-> row.id, city_name |-> row.city,
                               state_name |-> row.state_name, county |-> row.county,
                               is_unincorporated |-> row.is_unincorporated_place]
                bound == [t EXCEPT !.properties = properties]
                valid == validate_data([label |-> "City", properties |-> properties],
                                       constraints, FALSE)
                made == create_node(t.store.nodes, "City", properties, {"city_id"})
            IN  IF valid # "ok" THEN AppendFailure(bound, "city_name", valid, i)
                ELSE IF i \in down \/ ~made.ok
                THEN AppendFailure(bound, "city_name",
                                   "Failed to create City node", i)
                ELSE [bound EXCEPT !.store = Store(made.nodes, t.store.rels,
                                                   t.store.layers),
                                   !.success_count = @ + 1]
        RECURSIVE CityLoop(_, _)
        CityLoop(t, i) ==
            IF i > Len(df) THEN t ELSE CityLoop(CityStep(t, df[i], i), i + 1)
    IN  CityLoop(Tally(st), 1)

\* the zipcodes of the tables, in the order the loop visits them
combined_zipcodes(zipcode_df, city_df, neighborhood_df) ==
    LET RECURSIVE Explode(_)
        Explode(lists) ==
            IF lists = <<>> THEN {}
            ELSE {Head(lists)[j] : j \in 1..Len(Head(lists))}
                    \cup Explode(Tail(lists))
        all == Explode([i \in 1..Len(city_df) |-> city_df[i].zipcodes])
                 \cup Explode([i \in 1..Len(neighborhood_df) |->
                                  neighborhood_df[i].zipcodes])
                 \cup {zipcode_df[i].ZIP : i \in 1..Len(zipcode_df)}
        order == <<"z1", "z2", "z3">>
        RECURSIVE Pick(_)
        Pick(i) == IF i > Len(order) THEN <<>>
                   ELSE IF order[i] \in all THEN <<order[i]>> \o Pick(i + 1)
                   ELSE Pick(i + 1)
    IN Pick(1)

create_zipcode_nodes(st, constraints, zipcode_df, city_df, neighborhood_df, down) ==
    LET zipcodes == combined_zipcodes(zipcode_df, city_df, neighborhood_df)
        \* one pass of the loop body
        ZipcodeStep(t, zipcode, i) ==
            LET zipcode_row == {j \in 1..Len(zipcode_df) : zipcode_df[j].ZIP = zipcode}
                properties ==
                    IF zipcode_row # {}
                    THEN [zipcode_number |-> zipcode,
                          wkt |-> zipcode_df[CHOOSE j \in zipcode_row :
                                        \A k \in zipcode_row : j <= k].the_geom]
                    ELSE [zipcode_number |-> zipcode]
                bound == [t EXCEPT !.properties = properties]
                valid == validate_data([label |-> "Zipcode",
                                        properties |-> properties],
                                       constraints, FALSE)
                made == create_node(t.store.nodes, "Zipcode", properties,
                                    {"zipcode_number"})
                st1 == Store(made.nodes, t.store.rels, t.store.layers)
                added == add_node_to_spatial_layer(st1, made.node, "zipcode_layer")
            IN  IF valid # "ok" THEN AppendFailure(bound, "zipcode_number", valid, i)
                ELSE IF i \in down \/ ~made.ok
                THEN AppendFailure(bound, "zipcode_number",
                                   "Failed to create Zipcode node", i)
                ELSE IF "wkt" \in DOMAIN properties /\ ~added.ok
                THEN AppendFailure([bound EXCEPT !.store = st1], "zipcode_number",
                                   "Failed to add Zipcode node to spatial layer", i)
                ELSE [bound EXCEPT !.store = IF "wkt" \in DOMAIN properties
                                             THEN added.store ELSE st1,
                                   !.success_count = @ + 1]
        RECURSIVE ZipcodeLoop(_, _)
        ZipcodeLoop(t, i) ==
            IF i > Len(zipcodes) THEN t
            ELSE ZipcodeLoop(ZipcodeStep(t, zipcodes[i], i), i + 1)
    IN  ZipcodeLoop(Tally(init_wkt_layer(st, "zipcode_layer")), 1)

\* ------------------------------ block group / zipcode intersection --------

\* The polygons of this model, named by their WKT text: three block group
\* polygons (gZ is degenerate) and two zipcode polygons. Areas are in square
\* metres; shapely computes them as Python floats.
Area(wkt) ==
    CASE wkt = "gA" -> 10000
      [] wkt = "gB" -> 10000
      [] wkt = "gZ" -> 0
      [] wkt = "w1" -> 40000
      [] wkt = "w2" -> 40000
      [] OTHER -> 0

\* bg_geom.intersection(z_geom).area
IntersectionArea(bg_wkt, z_wkt) ==
    CASE bg_wkt = "gA" /\ z_wkt = "w1" -> 9700
      [] bg_wkt = "gA" /\ z_wkt = "w2" -> 5000
      [] bg_wkt = "gB" /\ z_wkt = "w1" -> 9500
      [] bg_wkt = "gB" /\ z_wkt = "w2" -> 9501
      [] OTHER -> 0

\* spatial.intersects: the polygons share a point (gZ lies on the border of w1)
Intersects(bg_wkt, z_wkt) ==
    \/ IntersectionArea(bg_wkt, z_wkt) > 0
    \/ bg_wkt = "gZ" /\ z_wkt = "w1"

\* the float intersection_area / bg_area as the store shows it
FloatStr(intersection_area, bg_area) ==
    LET tenthousandths == (intersection_area * 10000) \div bg_area
    IN  CASE tenthousandths = 0 -> "0.0"
          [] tenthousandths = 5000 -> "0.5"
          [] tenthousandths = 9500 -> "0.95"
          [] tenthousandths = 9501 -> "0.9501"
          [] tenthousandths = 9700 -> "0.97"
          [] OTHER -> "?"

\* mutant of ContainmentType: overlap_ratio >= 0.95
ContainmentTypeAtLeast(intersection_area, bg_area) ==
    IF intersection_area * 100 >= 95 * bg_area THEN "Full" ELSE "Partial"

\* "Full" if overlap_ratio > 0.95 else "Partial"
ContainmentType(intersection_area, bg_area) ==
    IF intersection_area * 100 > 95 * bg_area THEN "Full" ELSE "Partial"

\* the records of the intersection query: every BlockGroup node with every
\* Zipcode node of zipcode_layer whose polygon meets its own
IntersectionRecords(st) ==
    {[block_group |-> bg.props["ct_block_group"], bg_wkt |-> bg.props["wkt"],
      zipcode |-> z.props["zipcode_number"], z_wkt |-> z.props["wkt"]] :
        <<bg, z>> \in {p \in st.nodes \X st.nodes :
            /\ p[1].label = "BlockGroup"
            /\ p[2].label = "Zipcode"
            /\ p[2].id \in st.layers["zipcode_layer"]
            /\ Intersects(p[1].props["wkt"], p[2].props["wkt"])}}

\* the query raises when a BlockGroup is matched and the layer is not there,
\* or a BlockGroup carries no wkt
IntersectionQueryFails(st) ==
    \E bg \in st.nodes :
        /\ bg.label = "BlockGroup"
        /\ \/ "zipcode_layer" \notin DOMAIN st.layers
           \/ "wkt" \notin DOMAIN bg.props

\* mutant of CaughtPerRecord: the loop body has no try of its own
CaughtPerRecordNever(e) == FALSE

\* except Exception inside the loop over the records
CaughtPerRecord(e) == e # "none"

\* result is the value returned: False when the outer except is entered
create_block_group_zipcode_intersection(st) ==
    LET \* the loop body for one record; t.raised carries an exception on its
        \* way to the outer except
        IntersectionStep(t, record) ==
            LET bg_area == Area(record.bg_wkt)
                intersection_area == IntersectionArea(record.bg_wkt, record.z_wkt)
                e == IF bg_area = 0 THEN "ZeroDivisionError" ELSE "none"
                c == [start_label |-> "BlockGroup",
                      start_props |-> [ct_block_group |-> record.block_group],
                      start_match_keys |-> {"ct_block_group"},
                      end_label |-> "Zipcode",
                      end_props |-> [zipcode_number |-> record.zipcode],
                      end_match_keys |-> {"zipcode_number"},
                      rel_type |-> "IS_WITHIN",
                      rel_properties |->
                          [containment_type |->
                               ContainmentType(intersection_area, bg_area),
                           overlap_ratio |-> FloatStr(intersection_area, bg_area)]]
            IN  IF e # "none"
                THEN IF CaughtPerRecord(e)
                     THEN [t EXCEPT !.failed_instances =
                              Append(@, [block_group |-> record.block_group,
                                         zipcode |-> record.zipcode, error |-> e])]
                     ELSE [t EXCEPT !.raised = e]
                ELSE [t EXCEPT !.store =
                          Store(t.store.nodes,
                                create_relationship(t.store.nodes, t.store.rels,
                                                    c).rels,
                                t.store.layers),
                      !.success_count = @ + 1]
        RECURSIVE IntersectionLoop(_, _)
        IntersectionLoop(t, records) ==
            IF records = {} \/ t.raised # "none" THEN t
            ELSE LET record == CHOOSE r \in records : TRUE
                 IN IntersectionLoop(IntersectionStep(t, record), records \ {record})
    IN  IF IntersectionQueryFails(st)
        THEN [result |-> FALSE, store |-> st, success_count |-> 0,
              failed_instances |-> <<>>]
        ELSE LET t == IntersectionLoop(Tally(st), IntersectionRecords(st))
             IN [result |-> t.raised = "none", store |-> t.store,
                 success_count |-> t.success_count,
                 failed_instances |-> t.failed_instances]

\* ------------------------------ builders on one store ---------------------

\* bound: rows of a table handed to one builder call
MaxBatch == 2

\* the schema with the geometry property left undeclared
SchemaNoWkt ==
    [Schema EXCEPT
        !.nodes.BlockGroup.properties =
            Restrict(@, DOMAIN @ \ {"wkt"}),
        !.nodes.Zipcode.properties =
            Restrict(@, DOMAIN @ \ {"wkt"})]

\* The rows of the source tables of this model. The geometry column of the
\* block group table is nullable (bgN); bgZ is the degenerate polygon.
Rows ==
    [block_groups |->
        {[ctblockgroup |-> "bgA", tract |-> "t1", blockgroup |-> "1",
          objectid |-> "1", wkb_geometry |-> "gA"],
         [ctblockgroup |-> "bgB", tract |-> "t1", blockgroup |-> "2",
          objectid |-> "2", wkb_geometry |-> "gB"],
         [ctblockgroup |-> "bgZ", tract |-> "t2", blockgroup |-> "1",
          objectid |-> "3", wkb_geometry |-> "gZ"]},
     block_groups_nullable |->
        {[ctblockgroup |-> "bgA", tract |-> "t1", blockgroup |-> "1",
          objectid |-> "1", wkb_geometry |-> "gA"],
         [ctblockgroup |-> "bgN", tract |-> "t2", blockgroup |-> "2",
          objectid |-> "4", wkb_geometry |-> NoneVal]},
     zipcodes |->
        {[ZIP |-> "z1", the_geom |-> "w1"],
         [ZIP |-> "z2", the_geom |-> "w2"]},
     cities |->
        {[id |-> "c1", city |-> "n1", state_name |-> "CT", county |-> "k1",
          is_unincorporated_place |-> "False", zipcodes |-> <<"z1">>],
         [id |-> "c2", city |-> "n2", state_name |-> "CT", county |-> "k1",
          is_unincorporated_place |-> "True", zipcodes |-> <<"z3">>]},
     neighborhoods |->
        {[id |-> "h1", community |-> "m1", zipcodes |-> <<"z1", "z2">>]}]

\* the tables of at most MaxBatch different rows of a set
Batches(rows, min) ==
    UNION {{b \in [1..n -> rows] : \A i, j \in 1..n : i # j => b[i] # b[j]} :
            n \in min..MaxBatch}

\* the positions at which the store is unreachable during one call: none or one
Outages(batch) == {{}} \cup {{i} : i \in 1..Len(batch)}

\* what a builder call leaves in last
BuilderRecord(op, call, batch_size, t) ==
    [op |-> op, call |-> call, batch_size |-> batch_size,
     success_count |-> t.success_count, failed_instances |-> t.failed_instances,
     raised |-> t.raised, ok |-> t.raised = "none",
     pre_nodes |-> nodes, pre_rels |-> rels, pre_cons |-> cons,
     pre_layers |-> layers]

CreateBlockGroupNodes(constraints, gdf, down) ==
    LET t == create_block_group_nodes(Store(nodes, rels, layers), constraints,
                                      [none |-> FALSE, rows |-> gdf], down)
    IN  /\ nodes' = t.store.nodes
        /\ rels' = t.store.rels
        /\ layers' = t.store.layers
        /\ last' = BuilderRecord("create_block_group_nodes",
                                 [constraints |-> constraints, batch |-> gdf,
                                  down |-> down,
                                  keys |-> [i \in 1..Len(gdf) |-> gdf[i].ctblockgroup]],
                                 Len(gdf), t)
        /\ UNCHANGED <<runs, vin, vout, cons, pop>>

CreateZipcodeNodes(constraints, zipcode_df, city_df, neighborhood_df, down) ==
    LET t == create_zipcode_nodes(Store(nodes, rels, layers), constraints,
                                  zipcode_df, city_df, neighborhood_df, down)
        zipcodes == combined_zipcodes(zipcode_df, city_df, neighborhood_df)
    IN  /\ nodes' = t.store.nodes
        /\ rels' = t.store.rels
        /\ layers' = t.store.layers
        /\ last' = BuilderRecord("create_zipcode_nodes",
                                 [constraints |-> constraints, batch |-> zipcode_df,
                                  city_df |-> city_df,
                                  neighborhood_df |-> neighborhood_df,
                                  down |-> down, keys |-> zipcodes],
                                 Len(zipcodes), t)
        /\ UNCHANGED <<runs, vin, vout, cons, pop>>

CreateCityNodes(constraints, df, down) ==
    LET t == create_city_nodes(Store(nodes, rels, layers), constraints, df, down)
    IN  /\ nodes' = t.store.nodes
        /\ rels' = t.store.rels
        /\ layers' = t.store.layers
        /\ last' = BuilderRecord("create_city_nodes",
                                 [constraints |-> constraints, batch |-> df,
                                  down |-> down,
                                  keys |-> [i \in 1..Len(df) |-> df[i].city]],
                                 Len(df), t)
        /\ UNCHANGED <<runs, vin, vout, cons, pop>>

CreateBlockGroupZipcodeIntersection ==
    LET r == create_block_group_zipcode_intersection(Store(nodes, rels, layers))
    IN  /\ nodes' = r.store.nodes
        /\ rels' = r.store.rels
        /\ layers' = r.store.layers
        /\ last' = [op |-> "create_block_group_zipcode_intersection",
                    call |-> EmptyDict, ok |-> r.result,
                    records |-> IF IntersectionQueryFails(Store(nodes, rels, layers))
                                THEN {}
                                ELSE IntersectionRecords(Store(nodes, rels, layers)),
                    success_count |-> r.success_count,
                    failed_instances |-> r.failed_instances, raised |-> "none",
                    pre_nodes |-> nodes, pre_rels |-> rels, pre_cons |-> cons,
                    pre_layers |-> layers]
        /\ UNCHANGED <<runs, vin, vout, cons, pop>>

CreateConstraints(constraints) ==
    LET r == create_constraints(cons, constraints)
    IN  /\ cons' = r.cons
        /\ last' = [op |-> "create_constraints",
                    call |-> [constraints |-> constraints],
                    ok |-> r.raised = "none", raised |-> r.raised,
                    pre_nodes |-> nodes, pre_rels |-> rels, pre_cons |-> cons,
                    pre_layers |-> layers]
        /\ UNCHANGED <<nodes, rels, layers, runs, vin, vout, pop>>

\* cleanup_neo4j(driver, constraints): nodes and spatial_layers left at None
CleanupNeo4j(constraints) ==
    LET r == cleanup_neo4j(Store(nodes, rels, layers), cons, constraints,
                           <<>>, <<>>)
    IN  /\ nodes' = r.store.nodes
        /\ rels' = r.store.rels
        /\ layers' = r.store.layers
        /\ cons' = r.cons
        /\ last' = [op |-> "cleanup_neo4j",
                    call |-> [constraints |-> constraints],
                    ok |-> r.raised = "none", raised |-> r.raised,
                    pre_nodes |-> nodes, pre_rels |-> rels, pre_cons |-> cons,
                    pre_layers |-> layers]
        /\ UNCHANGED <<runs, vin, vout, pop>>

\* the node builders on tables with null geometries, undeclared properties
\* and store outages
NextBuilders ==
    \/ \E gdf \in Batches(Rows.block_groups_nullable, 1) :
          \E down \in Outages(gdf) : CreateBlockGroupNodes(Schema, gdf, down)
    \/ \E constraints \in {Schema, SchemaNoWkt},
          zipcode_df \in {z \in Batches(Rows.zipcodes, 0) :
                             \A i \in 1..Len(z) : z[i].ZIP = "z1"},
          city_df \in {c \in Batches(Rows.cities, 0) : Len(c) <= 1} :
          \E down \in Outages(combined_zipcodes(zipcode_df, city_df, <<>>)) :
             CreateZipcodeNodes(constraints, zipcode_df, city_df, <<>>, down)
    \/ \E df \in Batches(Rows.cities, 1) :
          \E down \in Outages(df) : CreateCityNodes(Schema, df, down)

SpecBuilders == Init /\ [][NextBuilders]_vars

\* constraint registration, the geometry builders, the intersection builder
\* and the cleanup on one store
NextTopology ==
    \/ \E gdf \in Batches(Rows.block_groups, 1) :
          CreateBlockGroupNodes(Schema, gdf, {})
    \/ \E zipcode_df \in Batches(Rows.zipcodes, 0),
          city_df \in {c \in Batches(Rows.cities, 0) :
                          \A i \in 1..Len(c) : c[i].id = "c1"},
          neighborhood_df \in {h \in Batches(Rows.neighborhoods, 0) : Len(h) <= 1} :
          CreateZipcodeNodes(Schema, zipcode_df, city_df, neighborhood_df, {})
    \/ CreateBlockGroupZipcodeIntersection
    \/ CreateConstraints(Schema)
    \/ CleanupNeo4j(Schema)

SpecTopology == Init /\ [][NextTopology]_vars

\* ------------------------------ the populate script -----------------------

\* the IS_WITHIN calls of create_city_relationships for one table; the rows of
\* this model list zipcodes only (no neighborhoods, no neighbouring places)
RECURSIVE CityRelCalls(_)
CityRelCalls(df) ==
    IF df = <<>> THEN <<>>
    ELSE LET row == Head(df)
         IN [j \in 1..Len(row.zipcodes) |->
                [start_label |-> "City", start_props |-> [city_id |-> row.id],
                 start_match_keys |-> {"city_id"},
                 end_label |-> "Zipcode",
                 end_props |-> [zipcode_number |-> row.zipcodes[j]],
                 end_match_keys |-> {"zipcode_number"},
                 rel_type |-> "IS_WITHIN",
                 rel_properties |->
                     [containment_type |-> IF Len(row.zipcodes) = 1
                                           THEN "Full" ELSE "Partial"]]]
            \o CityRelCalls(Tail(df))

\* the relationships after every call was made (no return value is looked at)
RECURSIVE create_city_relationships(_, _, _)
create_city_relationships(ns, rs, calls) ==
    IF calls = <<>> THEN rs
    ELSE create_city_relationships(ns, create_relationship(ns, rs, Head(calls)).rels,
                                   Tail(calls))

\* etl_components, in the order the script walks them
etl_components ==
    <<"block_groups", "administrative_topology", "businesses", "geoenrichments">>

\* the component the loop turns to after the i-th, "done" after the last
ComponentAfter(component) ==
    LET i == CHOOSE k \in 1..Len(etl_components) : etl_components[k] = component
    IN  IF i = Len(etl_components) THEN "done" ELSE etl_components[i + 1]

\* if cleanup: cleanup_neo4j(driver, constraints, nodes=..., spatial_layers=...)
OptionalCleanup(st, cs, constraints, cleanup, nodes_arg, spatial_layers_arg) ==
    IF cleanup
    THEN cleanup_neo4j(st, cs, constraints, nodes_arg, spatial_layers_arg)
    ELSE [store |-> st, cons |-> cs, raised |-> "none"]

\* What a component leaves: the store, the constraints, the exception that
\* left it, the number of nodes its builders upserted and the constraints the
\* store held while they did.
ComponentResult(st, cs, raised, upserts) ==
    [store |-> st, cons |-> cs, raised |-> raised, upserts |-> upserts]

\* gdf is what get_block_group_data returned
populate_block_groups(st, cs, constraints, cleanup, gdf) ==
    LET c == OptionalCleanup(st, cs, constraints, cleanup,
                             <<"BlockGroup">>, <<"block_group_layer">>)
        t == create_block_group_nodes(c.store, constraints, gdf, {})
    IN  IF c.raised # "none" THEN ComponentResult(c.store, c.cons, c.raised, 0)
        ELSE ComponentResult(t.store, c.cons, t.raised, t.success_count)

\* data is what get_administrative_topology_data produced: the tables, or the
\* error it raised; the neighborhood table of this model is empty
populate_administrative_topology(st, cs, constraints, cleanup, data) ==
    LET c == OptionalCleanup(st, cs, constraints, cleanup,
                             <<"Zipcode", "City", "Neighborhood">>,
                             <<"zipcode_layer">>)
        z == create_zipcode_nodes(c.store, constraints, data.zipcode_df,
                                  data.city_df, <<>>, {})
        y == create_city_nodes(z.store, constraints, data.city_df, {})
        rs == create_city_relationships(y.store.nodes, y.store.rels,
                                        CityRelCalls(data.city_df))
        x == create_block_group_zipcode_intersection(
                 Store(y.store.nodes, rs, y.store.layers))
    IN  IF c.raised # "none" \/ data.error # "none"
        THEN ComponentResult(c.store, c.cons, "none", 0)   \* except Exception
        ELSE ComponentResult(x.store, c.cons, "none",
                             z.success_count + y.success_count)

\* polygon.contains(Point(longitude, latitude)) for the polygons and the
\* points of this model: x2 lies where w1 and w2 overlap, x3 in no zipcode
Contains(wkt, longitude, latitude) ==
    /\ latitude = "y1"
    /\ \/ wkt = "gA" /\ longitude \in {"x2", "x3"}
       \/ wkt = "gB" /\ longitude = "x4"
       \/ wkt = "w1" /\ longitude = "x2"
       \/ wkt = "w2" /\ longitude \in {"x2", "x4"}

\* mutant of LinkedZipcodes: MATCH (z:Zipcode) without the IS_WITHIN pattern
LinkedZipcodesAll(st, block_group_id) == {z \in st.nodes : z.label = "Zipcode"}

\* MATCH (bg:BlockGroup)-[:IS_WITHIN]->(z:Zipcode) WHERE bg.ct_block_group = ..
LinkedZipcodes(st, block_group_id) ==
    {z \in st.nodes :
        /\ z.label = "Zipcode"
        /\ \E bg \in st.nodes : \E r \in st.rels :
              /\ bg.label = "BlockGroup"
              /\ Get(bg.props, "ct_block_group") = block_group_id
              /\ r.type = "IS_WITHIN" /\ r.start = bg.id /\ r.end = z.id}

\* order is the order in which the store returns zipcodes; the result is the
\* zipcode number or None. wkt.loads of a missing wkt raises, and the except
\* of the function turns that into None.
get_business_zipcode(st, block_group_id, longitude, latitude, order) ==
    LET linked == LinkedZipcodes(st, block_group_id)
        NodeOfNumber(number) ==
            CHOOSE z \in linked : Get(z.props, "zipcode_number") = number
        records == SelectSeq(order,
                             LAMBDA number :
                                 \E z \in linked :
                                     Get(z.props, "zipcode_number") = number)
        RECURSIVE Scan(_)
        Scan(i) ==
            IF i > Len(records) THEN NoneVal
            ELSE IF "wkt" \notin DOMAIN NodeOfNumber(records[i]).props THEN NoneVal
            ELSE IF Contains(NodeOfNumber(records[i]).props.wkt, longitude, latitude)
            THEN records[i]
            ELSE Scan(i + 1)
    IN  Scan(1)

\* bg_businesses is the dict of the places of one block group, flattened in
\* the order the two loops visit it; down holds the ids of the places at which
\* the store is unreachable
create_business_nodes(st, bg_businesses, block_group_id, constraints, order, down) ==
    LET LocatedIn(business, end_label, end_props) ==
            [start_label |-> "Business",
             start_props |-> [business_id |-> business.id],
             start_match_keys |-> {"business_id"},
             end_label |-> end_label, end_props |-> end_props,
             end_match_keys |-> DOMAIN end_props,
             rel_type |-> "LOCATED_IN", rel_properties |-> EmptyDict]
        Properties(business) ==
            [business_id |-> business.id,
             business_name |-> business.display_name,
             business_type |-> business.business_type,
             latitude |-> business.latitude,
             longitude |-> business.longitude,
             address |-> business.formatted_address,
             rating |-> business.rating,
             price_level |-> business.price_level]
        \* the loop body from statement k on: u is the running state, b the
        \* place, i its position
        RECURSIVE Statement(_, _, _, _)
        Validated(u, b, i, valid) ==
            IF valid # "ok" THEN AppendFailure(u, "business_name", valid, i)
            ELSE Statement(u, b, i, 2)
        Created(u, b, i, business_node) ==
            IF b.id \in down \/ ~business_node.ok
            THEN AppendFailure(u, "business_name",
                               "Failed to create Business node", i)
            ELSE Statement([u EXCEPT !.store.nodes = business_node.nodes],
                           b, i, 3)
        Added(u, b, i, added) ==
            IF ~added.ok
            THEN AppendFailure(u, "business_name",
                               "Failed to add Business node to spatial layer", i)
            ELSE Statement([u EXCEPT !.store = added.store], b, i, 4)
        Located(u, b, zipcode) ==
            IF zipcode # NoneVal
            THEN [u EXCEPT !.store.rels =
                              create_relationship(u.store.nodes, u.store.rels,
                                  LocatedIn(b, "Zipcode",
                                            [zipcode_number |-> zipcode])).rels,
                           !.success_count = @ + 1]
            ELSE [u EXCEPT !.success_count = @ + 1]
        Statement(u, b, i, k) ==
            IF k = 1
            THEN Validated([u EXCEPT !.properties = Properties(b)], b, i,
                           validate_data([label |-> "Business",
                                          properties |-> Properties(b)],
                                         constraints, FALSE))
            ELSE IF k = 2
            THEN Created(u, b, i,
                         create_node(u.store.nodes, "Business", u.properties,
                                     {"business_id"}))
            ELSE IF k = 3
            THEN Added(u, b, i,
                       add_node_to_spatial_layer(
                           u.store,
                           {n.id : n \in {m \in u.store.nodes :
                                Matches(m, "Business", [business_id |-> b.id])}},
                           "business_layer"))
            ELSE IF k = 4
            THEN Statement(
                     [u EXCEPT !.store.rels =
                         create_relationship(u.store.nodes, u.store.rels,
                             LocatedIn(b, "BlockGroup",
                                       [ct_block_group |-> block_group_id])).rels],
                     b, i, 5)
            ELSE Located(u, b,
                         get_business_zipcode(u.store, block_group_id,
                                              b.longitude, b.latitude, order))
        RECURSIVE BusinessLoop(_, _)
        BusinessLoop(t, i) ==
            IF i > Len(bg_businesses) THEN t
            ELSE BusinessLoop(Statement(t, bg_businesses[i], i, 1), i + 1)
    IN  BusinessLoop(Tally(st), 1)

\* credentials is the outcome of google.auth.default(). search is what the
\* outside delivers during the loop: places, the places every nearby search
\* returns; block_groups and zipcodes, the order in which the store returns
\* the block groups and the zipcodes; down, the ids of the places at which the
\* store is unreachable. Every BlockGroup node of this model carries a wkt.
\* batches keeps what create_business_nodes returned for each block group.
populate_businesses(st, cs, constraints, cleanup, credentials, search) ==
    LET IsBlockGroup(s, ct) ==
            \E bg \in s.nodes :
                bg.label = "BlockGroup" /\ Get(bg.props, "ct_block_group") = ct
        polygon(s, ct) ==
            (CHOOSE bg \in s.nodes :
                bg.label = "BlockGroup" /\ Get(bg.props, "ct_block_group") = ct).props.wkt
        \* business_count, failed_instances = create_business_nodes(..)
        \* business_count += business_count
        \* failed_instances.extend(failed_instances)
        Accumulate(a, block_group_id, businesses_in_block_group, r) ==
            [store |-> r.store,
             business_count |-> r.success_count + r.success_count,
             failed_instances |-> r.failed_instances \o r.failed_instances,
             batches |-> Append(a.batches,
                                [ct_block_group |-> block_group_id,
                                 bg_businesses |-> businesses_in_block_group,
                                 success_count |-> r.success_count,
                                 failed_instances |-> r.failed_instances])]
        Filtered(a, block_group_id, businesses_in_block_group) ==
            Accumulate(a, block_group_id, businesses_in_block_group,
                       create_business_nodes(a.store, businesses_in_block_group,
                                             block_group_id, constraints,
                                             search.zipcodes, search.down))
        BlockGroupStep(a, block_group_id) ==
            Filtered(a, block_group_id,
                     SelectSeq(search.places,
                               LAMBDA place :
                                   Contains(polygon(a.store, block_group_id),
                                            place.longitude, place.latitude)))
        RECURSIVE BlockGroupLoop(_, _, _)
        BlockGroupLoop(a, block_groups, i) ==
            IF i > Len(block_groups) THEN a
            ELSE BlockGroupLoop(BlockGroupStep(a, block_groups[i]), block_groups,
                                i + 1)
        Totals(st0, cons0, a) ==
            [store |-> a.store, cons |-> cons0, raised |-> "none",
             upserts |-> Cardinality(a.store.nodes \ st0.nodes),
             business_count |-> a.business_count,
             failed_instances |-> a.failed_instances,
             batches |-> a.batches]
        Loop(st0, cons0) ==
            Totals(st0, cons0,
                   BlockGroupLoop([store |-> st0, business_count |-> 0,
                                   failed_instances |-> <<>>, batches |-> <<>>],
                                  SelectSeq(search.block_groups,
                                            LAMBDA ct : IsBlockGroup(st0, ct)),
                                  1))
        Cleaned(c) ==
            IF c.raised # "none" THEN ComponentResult(c.store, c.cons, c.raised, 0)
            ELSE IF credentials # "ok"
            THEN ComponentResult(c.store, c.cons, credentials, 0)
            ELSE Loop(init_point_layer(c.store, "business_layer"), c.cons)
    IN  Cleaned(OptionalCleanup(st, cs, constraints, cleanup,
                                <<"Business">>, <<"business_layer">>))

\* csv is what pd.read_csv produced: the table, or the error it raised; the
\* labels handed to the cleanup are those of the enrichment types of this model
populate_geoenrichments(st, cs, constraints, cleanup, csv) ==
    LET c == OptionalCleanup(st, cs, constraints, cleanup, EnrichmentTypes, <<>>)
        ns == create_enrichment_nodes(c.store.nodes,
                                      EnrichmentNodeCalls(EnumDeclarations.full, 1))
        r == create_enrichment_relationships(ns, c.store.rels, DfRelCalls(csv.df))
    IN  IF c.raised # "none" THEN ComponentResult(c.store, c.cons, c.raised, 0)
        ELSE IF csv.error # "none"
        THEN ComponentResult(c.store, c.cons, csv.error, 0)
        ELSE ComponentResult(Store(ns, r.rels, c.store.layers), c.cons, "none",
                             Len(EnrichmentNodeCalls(EnumDeclarations.full, 1)))

\* ------ what the sources of the components deliver

\* per component: a frame or None; the three tables or the error of the fetch;
\* the outcome of google.auth.default(); the table or the error of read_csv
Delivered ==
    [block_groups |->
        {[none |-> TRUE, rows |-> <<>>],
         [none |-> FALSE,
          rows |-> <<[ctblockgroup |-> "11", tract |-> "1", blockgroup |-> "1",
                      objectid |-> "1", wkb_geometry |-> "gA"]>>]},
     administrative_topology |->
        {[error |-> "OperationalError", zipcode_df |-> <<>>, city_df |-> <<>>],
         [error |-> "none",
          zipcode_df |-> <<[ZIP |-> "z1", the_geom |-> "w1"]>>,
          city_df |-> <<[id |-> "c1", city |-> "n1", state_name |-> "CT",
                         county |-> "k1", is_unincorporated_place |-> "False",
                         zipcodes |-> <<"z1">>]>>]},
     businesses |-> {"ok", "DefaultCredentialsError"},
     geoenrichments |->
        {[error |-> "FileNotFoundError", df |-> <<>>],
         [error |-> "none",
          df |-> <<[tractce |-> 1, blkgrpce |-> 1, totpop_cy |-> 500,
                    crmcytotc |-> 79]>>]}]

\* ------ the script, one action per step of its loop

\* what --include and --exclude can carry: None, or the list of the names
Arguments ==
    {[none |-> TRUE, names |-> {}]}
        \cup {[none |-> FALSE, names |-> names] :
                 names \in {{"block_groups"}, {"geoenrichments"},
                            {"administrative_topology", "businesses"}}}

\* the script up to its loop: with both options it raises ValueError before it
\* asks for a driver; otherwise the constraints are registered and the loop
\* visits the components that pass both tests
PopulateBegin(cleanup, include, exclude) ==
    LET r == create_constraints(cons, Schema)
        rejected == ~include.none /\ ~exclude.none
        selected == {component \in {etl_components[i] : i \in 1..Len(etl_components)} :
                        /\ include.none \/ component \in include.names
                        /\ exclude.none \/ component \notin exclude.names}
    IN  /\ pop.pc \in {"idle", "done", "aborted", "rejected"}
        /\ runs < MaxRuns
        /\ runs' = runs + 1
        /\ cons' = IF rejected THEN cons ELSE r.cons
        /\ pop' = [pc |-> IF rejected THEN "rejected"
                          ELSE IF r.raised = "none" THEN etl_components[1]
                          ELSE "aborted",
                   cleanup |-> cleanup, selected |-> selected,
                   raised |-> IF rejected THEN "none" ELSE r.raised,
                   include |-> include, exclude |-> exclude, executed |-> {}]
        /\ last' = [op |-> "populate", call |-> [cleanup |-> cleanup,
                                                 selected |-> selected],
                    ok |-> ~rejected /\ r.raised = "none",
                    raised |-> IF rejected THEN "ValueError" ELSE r.raised,
                    upserts |-> 0,
                    pre_nodes |-> nodes, pre_rels |-> rels, pre_cons |-> cons,
                    pre_layers |-> layers]
        /\ UNCHANGED <<nodes, rels, layers, vin, vout>>

\* a component the arguments leave out
PopulateSkip ==
    /\ pop.pc \notin {"idle", "done", "aborted", "rejected"}
    /\ pop.pc \notin pop.selected
    /\ pop' = [pop EXCEPT !.pc = ComponentAfter(pop.pc)]
    /\ UNCHANGED <<nodes, rels, layers, cons, last, runs, vin, vout>>

\* a selected component ran to r: the loop goes on when nothing left it
PopulateStep(component, input, r) ==
    /\ pop.pc = component
    /\ component \in pop.selected
    /\ nodes' = r.store.nodes
    /\ rels' = r.store.rels
    /\ layers' = r.store.layers
    /\ cons' = r.cons
    /\ pop' = [pop EXCEPT !.pc = IF r.raised = "none" THEN ComponentAfter(component)
                                 ELSE "aborted",
                          !.raised = r.raised,
                          !.executed = @ \cup {component}]
    /\ last' = [op |-> component, call |-> [input |-> input],
                ok |-> r.raised = "none", raised |-> r.raised,
                upserts |-> r.upserts,
                pre_nodes |-> nodes, pre_rels |-> rels, pre_cons |-> cons,
                pre_layers |-> layers]
    /\ UNCHANGED <<runs, vin, vout>>

PopulateBlockGroups(gdf) ==
    PopulateStep("block_groups", gdf,
                 populate_block_groups(Store(nodes, rels, layers), cons, Schema,
                                       pop.cleanup, gdf))

PopulateAdministrativeTopology(data) ==
    PopulateStep("administrative_topology", data,
                 populate_administrative_topology(Store(nodes, rels, layers), cons,
                                                  Schema, pop.cleanup, data))

PopulateBusinesses(credentials) ==
    PopulateStep("businesses", [credentials |-> credentials],
                 populate_businesses(Store(nodes, rels, layers), cons, Schema,
                                     pop.cleanup, credentials,
                                     [places |-> <<>>, block_groups |-> <<"11">>,
                                      zipcodes |-> <<"z1">>, down |-> {}]))

PopulateEnrichments(csv) ==
    PopulateStep("geoenrichments", csv,
                 populate_geoenrichments(Store(nodes, rels, layers), cons, Schema,
                                         pop.cleanup, csv))

NextPopulate ==
    \/ \E cleanup \in BOOLEAN, include \in Arguments, exclude \in Arguments :
          PopulateBegin(cleanup, include, exclude)
    \/ PopulateSkip
    \/ \E gdf \in Delivered.block_groups : PopulateBlockGroups(gdf)
    \/ \E data \in Delivered.administrative_topology : PopulateAdministrativeTopology(data)
    \/ \E credentials \in Delivered.businesses : PopulateBusinesses(credentials)
    \/ \E csv \in Delivered.geoenrichments : PopulateEnrichments(csv)

SpecPopulate == Init /\ [][NextPopulate]_vars

\* ------ the businesses component over a store with block groups and zipcodes

\* the places of the nearby search: b2 lies in block group bgA and in both
\* zipcode polygons, b3 in bgA and in no zipcode polygon, b4 in bgB and in w2
Places ==
    LET Place(id, longitude) ==
            [id |-> id, display_name |-> id, business_type |-> "bakery",
             latitude |-> "y1", longitude |-> longitude,
             formatted_address |-> "a1", rating |-> "4.5", price_level |-> "1"]
    IN  <<Place("b2", "x2"), Place("b3", "x3"), Place("b4", "x4")>>

\* populate_businesses without cleanup, with credentials
PopulateBusinessesAlone(search) ==
    LET r == populate_businesses(Store(nodes, rels, layers), cons, Schema, FALSE,
                                 "ok", search)
    IN  /\ runs < MaxRuns
        /\ runs' = runs + 1
        /\ nodes' = r.store.nodes
        /\ rels' = r.store.rels
        /\ layers' = r.store.layers
        /\ last' = [op |-> "populate_businesses", call |-> search,
                    business_count |-> r.business_count,
                    failed_instances |-> r.failed_instances,
                    batches |-> r.batches,
                    ok |-> r.raised = "none", raised |-> r.raised,
                    pre_nodes |-> nodes, pre_rels |-> rels, pre_cons |-> cons,
                    pre_layers |-> layers]
        /\ UNCHANGED <<vin, vout, cons, pop>>

NextBusinesses ==
    \/ \E gdf \in {b \in Batches(Rows.block_groups, 1) :
                      Len(b) = 1 /\ b[1].ctblockgroup \in {"bgA", "bgB"}} :
          CreateBlockGroupNodes(Schema, gdf, {})
    \/ \E zipcode_df \in {b \in Batches(Rows.zipcodes, 1) : Len(b) = 1} :
          CreateZipcodeNodes(Schema, zipcode_df, <<>>, <<>>, {})
    \/ CreateBlockGroupZipcodeIntersection
    \/ \E places \in {Places},
          block_groups \in {<<"bgA", "bgB">>, <<"bgB", "bgA">>},
          zipcodes \in {<<"z1", "z2">>, <<"z2", "z1">>},
          down \in {{}, {"b3"}} :
          PopulateBusinessesAlone([places |-> places, block_groups |-> block_groups,
                                   zipcodes |-> zipcodes, down |-> down])

SpecBusinesses == Init /\ [][NextBusinesses]_vars

\* ------------------------------ properties of the upsert protocol -----------

\* a property a dict or a node does not carry reads as None
SameOn(d, e, ks) == \A k \in ks : Get(d, k) = Get(e, k)

NodeOf(ns, id) == CHOOSE n \in ns : n.id = id

LastIsNodeUpsert == last.op = "create_node" /\ last.ok

\* the nodes the last create_node call was about, in the store ns
UpsertTargets(ns) ==
    {n \in ns : /\ n.label = last.call.label
                /\ \A k \in last.call.match_keys :
                      k \in DOMAIN n.props /\ n.props[k] = last.call.properties[k]}

\* the last call upserted an entity the store already held with these properties
IsRepeatUpsert ==
    /\ LastIsNodeUpsert
    /\ \E n \in UpsertTargets(last.pre_nodes) :
          SameOn(n.props, last.call.properties, DOMAIN last.call.properties)

UniqueNaturalKey ==
    \A n1, n2 \in nodes :
        (n1.label = n2.label /\ SameOn(n1.props, n2.props, KeyOf(n1.label)))
            => n1 = n2

\* C1: after any sequence of create_node calls there is at most one node per
\* label and natural key value, and upserting an entity the store already holds
\* with identical properties changes neither the node count nor any node.
C1_UniqueAndIdempotent ==
    /\ UniqueNaturalKey
    /\ IsRepeatUpsert =>
          /\ Cardinality(nodes) = Cardinality(last.pre_nodes)
          /\ nodes = last.pre_nodes

C1_Witness ==
    /\ IsRepeatUpsert
    /\ Cardinality(nodes) >= 2
    /\ \E n \in nodes : DOMAIN n.props # KeyOf(n.label)

LastUpdatedExisting ==
    LastIsNodeUpsert /\ UpsertTargets(last.pre_nodes) # {}

\* C2 as stated: after a successful upsert of an existing node its non-key
\* properties are exactly the non-key properties supplied in the call.
C2_Original ==
    LastUpdatedExisting =>
        \A n \in UpsertTargets(nodes) :
            SameOn(n.props, last.call.properties,
                   (DOMAIN n.props \cup DOMAIN last.call.properties)
                       \ last.call.match_keys)

\* C2 amended: after a successful upsert of an existing node every non-key
\* property supplied in the call holds the supplied value (a supplied None
\* removes it), and every property the call does not supply keeps the value
\* it had before the call.
C2_LastWriteWinsPerProperty ==
    LastUpdatedExisting =>
        \A n \in UpsertTargets(nodes) :
            /\ n.id \in {m.id : m \in last.pre_nodes}
            /\ \A k \in DOMAIN n.props \cup DOMAIN NodeOf(last.pre_nodes, n.id).props
                        \cup DOMAIN last.call.properties :
                  Get(n.props, k) =
                      IF k \in DOMAIN last.call.properties
                      THEN last.call.properties[k]
                      ELSE Get(NodeOf(last.pre_nodes, n.id).props, k)

C2_Witness ==
    /\ LastUpdatedExisting
    /\ \E n \in UpsertTargets(nodes) :
          \E k \in DOMAIN n.props :
              /\ k \notin DOMAIN last.call.properties
              /\ n.props[k] = Get(NodeOf(last.pre_nodes, n.id).props, k)

LastIsRelUpsert == last.op = "create_relationship"

StartMatches(ns) ==
    {n \in ns : Matches(n, last.call.start_label,
                        Restrict(last.call.start_props, last.call.start_match_keys))}

EndMatches(ns) ==
    {n \in ns : Matches(n, last.call.end_label,
                        Restrict(last.call.end_props, last.call.end_match_keys))}

\* C3: a create_relationship call whose start or end selector matches no node
\* returns the failure value and leaves nodes and relationships as they were.
C3_MissingEndpointFails ==
    (LastIsRelUpsert
       /\ (StartMatches(last.pre_nodes) = {} \/ EndMatches(last.pre_nodes) = {}))
        => (~last.ok /\ nodes = last.pre_nodes /\ rels = last.pre_rels)

C3_Witness ==
    /\ LastIsRelUpsert
    /\ StartMatches(last.pre_nodes) # {}
    /\ EndMatches(last.pre_nodes) = {}
    /\ \E n \in last.pre_nodes : n.label = last.call.end_label
    /\ rels # {}

\* C4: for every relationship type and ordered pair of nodes the store holds at
\* most one relationship of that type from the first node to the second.
C4_OneRelPerTypeAndPair ==
    \A r1, r2 \in rels :
        (r1.type = r2.type /\ r1.start = r2.start /\ r1.end = r2.end) => r1 = r2

C4_Witness ==
    /\ LastIsRelUpsert
    /\ \E r \in last.pre_rels :
          /\ r.type = last.call.rel_type
          /\ r.start \in {n.id : n \in StartMatches(last.pre_nodes)}
          /\ r.end \in {n.id : n \in EndMatches(last.pre_nodes)}
          /\ r.props # last.call.rel_properties
    /\ Cardinality(rels) >= 2

\* the relationships the last create_relationship call wrote
WrittenRels ==
    {r \in rels : /\ r.type = last.call.rel_type
                  /\ r.start \in {n.id : n \in StartMatches(last.pre_nodes)}
                  /\ r.end \in {n.id : n \in EndMatches(last.pre_nodes)}}

\* C5: a create_relationship call that reaches its endpoints leaves on the
\* relationship exactly the properties supplied in the call (none when none
\* are supplied): no property of an earlier call survives.
C5_RelPropsReplaced ==
    (LastIsRelUpsert
       /\ StartMatches(last.pre_nodes) # {} /\ EndMatches(last.pre_nodes) # {})
        => /\ WrittenRels # {}
           /\ \A r \in WrittenRels :
                 /\ DOMAIN r.props = NonNull(last.call.rel_properties)
                 /\ \A k \in DOMAIN r.props : r.props[k] = last.call.rel_properties[k]

C5_Witness ==
    /\ LastIsRelUpsert
    /\ \E r \in WrittenRels :
          \E q \in last.pre_rels :
              /\ q.id = r.id
              /\ \E k \in DOMAIN q.props : k \notin DOMAIN r.props

\* ------------------------------ re-running the enrichment population -------

LastIsEnrichmentRun == last.op = "populate_geoenrichments"

BlockGroupsOf(ns, ct) ==
    {n \in ns : n.label = "BlockGroup" /\ Get(n.props, "ct_block_group") = ct}

\* the buckets one row assigns, with the source value the row carries for each
RowEdges(row) ==
    {[end_label |-> "TotalPopulation",
      end_props |-> [level |-> IF row.totpop_cy < 1000 THEN "LOW"
                               ELSE IF row.totpop_cy <= 2000 THEN "MEDIUM"
                               ELSE "HIGH"],
      props |-> [source_value |-> Str(row.totpop_cy)]],
     [end_label |-> "CrimeIndex",
      end_props |-> determine_crime_level(row.crmcytotc).category_combinations[1],
      props |-> [source_value |-> Str(row.crmcytotc)]]}

\* the buckets the table df assigns to block group ct, each with the
\* properties of the last row that assigns it
DerivedEdges(df, ct) ==
    UNION {{e \in RowEdges(df[i]) :
              \A l \in (i + 1)..Len(df) :
                  ct_block_group(df[l]) = ct =>
                      \A f \in RowEdges(df[l]) :
                          ~(f.end_label = e.end_label /\ f.end_props = e.end_props)} :
           i \in {j \in 1..Len(df) : ct_block_group(df[j]) = ct}}

\* the HAS_ENRICHMENT relationships of node b in rs, by the bucket they end at
EnrichmentEdges(ns, rs, b) ==
    {[end_label |-> NodeOf(ns, r.end).label, end_props |-> NodeOf(ns, r.end).props,
      props |-> r.props] :
        r \in {q \in rs : q.type = "HAS_ENRICHMENT" /\ q.start = b.id}}

TableBlockGroups(df) == {ct_block_group(df[i]) : i \in 1..Len(df)}

ValidatedData == vin.op = "validate_data" /\ vout # "pending"

\* the label of the entity is one the schema section holds
KnownLabel ==
    \/ ~vin.is_relationship /\ vin.label = "Entity"
    \/ vin.is_relationship /\ vin.label = "RELATES"

\* the properties the schema declares for the label of the entity
DeclaredProperties ==
    IF ~KnownLabel THEN EmptyDict
    ELSE IF vin.is_relationship
    THEN SchemaWith(vin.pc).relationships[vin.label].properties
    ELSE SchemaWith(vin.pc).nodes[vin.label].properties

RequiredAbsent ==
    {k \in DOMAIN DeclaredProperties :
        /\ "exists" \in DOMAIN DeclaredProperties[k]
        /\ DeclaredProperties[k]["exists"]
        /\ k \notin DOMAIN vin.properties}

\* the seven type tags with a one-argument shape check
ShapeTags == {"STRING", "INTEGER", "FLOAT", "BOOLEAN", "POINT", "LIST", "MAP"}

Mistyped ==
    {k \in DOMAIN DeclaredProperties \cap DOMAIN vin.properties :
        /\ vin.properties[k] # PyNone
        /\ "type" \in DOMAIN DeclaredProperties[k]
        /\ DeclaredProperties[k]["type"] \in ShapeTags
        /\ VALIDATORS(DeclaredProperties[k]["type"], vin.properties[k]) = "False"}

Undeclared == DOMAIN vin.properties \ DOMAIN DeclaredProperties

\* C7: validate_data fails for every entity or relationship that lacks a
\* property its schema declares as required, whatever its other properties are.
C7_RequiredAbsentFails ==
    (ValidatedData /\ KnownLabel /\ RequiredAbsent # {}) => vout # "ok"

\* C8: validate_data fails for every entity carrying a property whose value
\* does not match the type tag declared for it.
C8_TypeMismatchFails ==
    (ValidatedData /\ KnownLabel /\ Mistyped # {}) => vout # "ok"

\* C9: validate_data fails for every entity carrying a property its label does
\* not declare, whatever the values of the declared properties are.
C9_UndeclaredFails ==
    (ValidatedData /\ Undeclared # {}) => vout # "ok"

\* an undeclared property is rejected on an entity whose declared properties
\* are all present and would each pass their own check
C9_Witness ==
    /\ ValidatedData
    /\ KnownLabel
    /\ Undeclared # {}
    /\ DOMAIN DeclaredProperties \subseteq DOMAIN vin.properties
    /\ \A k \in DOMAIN DeclaredProperties :
          validate_property([label |-> vin.label, properties |-> vin.properties],
                            k, DeclaredProperties[k]) = "ok"
    /\ vout = "ValueError"

\* "prop" is declared with type ENUM and an allow-list and nothing else, the
\* entity carries a value for it and is otherwise well-formed
EnumCase ==
    /\ vout # "pending"
    /\ vin.pc = [type |-> "ENUM", enum |-> AllowList]
    /\ "prop" \in DOMAIN vin.properties
    /\ vin.properties["prop"] # PyNone
    /\ vin.op = "validate_data" =>
          /\ KnownLabel
          /\ Undeclared = {}
          /\ RequiredAbsent = {}
          /\ Mistyped = {}

\* C10: a property declared with type ENUM and an allow-list is accepted
\* exactly when its value is in the allow-list.
C10_EnumAcceptedIffAllowed ==
    EnumCase => (vout = "ok" <=> PyIn(vin.properties["prop"], AllowList))

\* "prop" is declared as a number with the range [RangeMin, RangeMax] and
\* nothing else, the entity carries an integer for it and is otherwise
\* well-formed
RangeCase ==
    /\ vout # "pending"
    /\ vin.pc \in {[type |-> t, range |-> [min |-> RangeMin, max |-> RangeMax]] :
                      t \in {"INTEGER", "FLOAT"}}
    /\ "prop" \in DOMAIN vin.properties
    /\ vin.properties["prop"].t = "int"
    /\ vin.op = "validate_data" =>
          /\ KnownLabel
          /\ Undeclared = {}
          /\ RequiredAbsent = {}

\* C11: a numeric property declared with range [min, max] is accepted at min
\* and at max and rejected at min-1 and at max+1.
C11_RangeInclusive ==
    RangeCase =>
        (vout = "ok" <=>
            (RangeMin <= vin.properties["prop"].v
                /\ vin.properties["prop"].v <= RangeMax))

\* ------------------------------ properties of the builders' bookkeeping ----

\* the rows of the last enrichment table whose block group the store lacks:
\* every create_relationship call made for such a row fails
RowsWithoutBlockGroup ==
    {i \in 1..Len(last.call.df) :
        BlockGroupsOf(last.pre_nodes, ct_block_group(last.call.df[i])) = {}}

\* C14: a relationship whose store upsert fails (its block group does not
\* exist) is recorded in the failure list and is not counted in success_count.
C14_FailedUpsertRecorded ==
    LastIsEnrichmentRun =>
        /\ last.call.success_count =
              Cardinality({EnrichmentTypes[t] : t \in 1..Len(EnrichmentTypes)})
                  * (Len(last.call.df) - Cardinality(RowsWithoutBlockGroup))
        /\ Len(last.call.failed_instances) =
              Cardinality({EnrichmentTypes[t] : t \in 1..Len(EnrichmentTypes)}) * Cardinality(RowsWithoutBlockGroup)

\* ------------------------------ the boundary of create_node ----------------

\* C18: create_node never raises to its caller: whatever the input and
\* whatever the store does, the call ends with the node handle or with False.
C18_CreateNodeNeverRaises ==
    last.op = "create_node" => /\ last.raised = "none"
                               /\ last.ok \in BOOLEAN

\* match_keys left at None against a store that holds nodes
C18_Witness ==
    /\ last.op = "create_node"
    /\ last.call.match_keys = NoMatchKeys
    /\ ~last.ok
    /\ last.raised = "none"
    /\ nodes # {}

\* ------------------------------ properties of registration and cleanup ------

\* the uniqueness constraints the schema declares
SchemaConstraints ==
    UniqueSpecs(Schema.nodes, FALSE) \cup UniqueSpecs(Schema.relationships, TRUE)

\* C17: registering the uniqueness constraints again, on a store that already
\* holds them, leaves the set of constraints as the first call left it and
\* raises nothing.
C17_CreateConstraintsIdempotent ==
    (last.op = "create_constraints" /\ last.pre_cons = SchemaConstraints) =>
        /\ cons = last.pre_cons
        /\ last.raised = "none"

C17_Witness ==
    /\ last.op = "create_constraints"
    /\ last.pre_cons = SchemaConstraints
    /\ Cardinality(cons) = 4
    /\ last.raised = "none"

StoreIsEmpty(ns, rs, cs, ls) ==
    ns = {} /\ rs = {} /\ cs = {} /\ DOMAIN ls = {}

\* C16: cleanup_neo4j with its defaults leaves no uniqueness constraint of the
\* schema, no node of a schema label, no spatial layer of the schema (hence no
\* node registered in one); on an empty store it changes nothing; it never
\* raises.
C16_CleanupLeavesNothing ==
    last.op = "cleanup_neo4j" =>
        /\ last.raised = "none"
        /\ cons \cap SchemaConstraints = {}
        /\ \A n \in nodes : n.label \notin DOMAIN Schema.nodes
        /\ DOMAIN layers \cap DOMAIN Schema.spatial_layers = {}
        /\ \A r \in rels : r.start \in {n.id : n \in nodes}
                           /\ r.end \in {n.id : n \in nodes}
        /\ StoreIsEmpty(last.pre_nodes, last.pre_rels, last.pre_cons,
                        last.pre_layers)
              => StoreIsEmpty(nodes, rels, cons, layers)

C16_Witness ==
    /\ last.op = "cleanup_neo4j"
    /\ last.pre_cons # {}
    /\ last.pre_rels # {}
    /\ \E l \in DOMAIN last.pre_layers : last.pre_layers[l] # {}
    /\ StoreIsEmpty(nodes, rels, cons, layers)

\* ------------------------------ properties of the intersection builder ------

\* the IS_WITHIN edges the store holds from the block group to the zipcode
IsWithinEdges(block_group, zipcode) ==
    {r \in rels :
        /\ r.type = "IS_WITHIN"
        /\ \E a \in nodes, b \in nodes :
              /\ a.id = r.start /\ a.label = "BlockGroup"
              /\ a.props["ct_block_group"] = block_group
              /\ b.id = r.end /\ b.label = "Zipcode"
              /\ b.props["zipcode_number"] = zipcode}

LastIsIntersection ==
    last.op = "create_block_group_zipcode_intersection" /\ last.ok

\* C19: after the intersection builder, every returned pair whose block group
\* has a non-zero area is joined by exactly one IS_WITHIN edge that carries
\* overlap_ratio = area(intersection) / area(block group) and containment_type
\* Full exactly when that ratio exceeds 0.95; the block group overlapping one
\* zipcode at 0.97 and another at 0.50 ends with the two edges Full/0.97 and
\* Partial/0.50 and no other.
C19_OverlapAndContainment ==
    LastIsIntersection =>
        /\ \A record \in last.records :
              Area(record.bg_wkt) # 0 =>
                \E r \in rels :
                    /\ IsWithinEdges(record.block_group, record.zipcode) = {r}
                    /\ r.props["overlap_ratio"] =
                          FloatStr(IntersectionArea(record.bg_wkt, record.z_wkt),
                                   Area(record.bg_wkt))
                    /\ r.props["containment_type"] = "Full"
                          <=> IntersectionArea(record.bg_wkt, record.z_wkt) * 100
                                > 95 * Area(record.bg_wkt)
                    /\ r.props["containment_type"] \in {"Full", "Partial"}
        /\ {<<"bgA", "z1">>, <<"bgA", "z2">>}
              \subseteq {<<x.block_group, x.zipcode>> : x \in last.records}
           => {r.props : r \in IsWithinEdges("bgA", "z1") \cup IsWithinEdges("bgA", "z2")}
                 = {[containment_type |-> "Full", overlap_ratio |-> "0.97"],
                    [containment_type |-> "Partial", overlap_ratio |-> "0.5"]}
              /\ Cardinality({r \in rels : r.type = "IS_WITHIN" /\
                    \E a \in nodes : a.id = r.start /\ a.label = "BlockGroup"
                        /\ a.props["ct_block_group"] = "bgA"}) = 2

C19_Witness ==
    /\ LastIsIntersection
    /\ {<<"bgA", "z1">>, <<"bgA", "z2">>, <<"bgB", "z1">>, <<"bgB", "z2">>}
          \subseteq {<<x.block_group, x.zipcode>> : x \in last.records}
    /\ last.pre_rels = {}
    /\ Cardinality(rels) = 4

\* C20: a returned pair whose block group has area 0 gets no IS_WITHIN edge and
\* is recorded as a failure, and every other returned pair is still processed.
C20_ZeroAreaIsolated ==
    last.op = "create_block_group_zipcode_intersection" =>
        \A record \in last.records :
            IF Area(record.bg_wkt) = 0
            THEN /\ IsWithinEdges(record.block_group, record.zipcode) = {}
                 /\ \E i \in 1..Len(last.failed_instances) :
                       /\ last.failed_instances[i].block_group = record.block_group
                       /\ last.failed_instances[i].zipcode = record.zipcode
                 /\ last.ok
                 /\ last.success_count + Len(last.failed_instances)
                       = Cardinality(last.records)
            ELSE (\E z \in last.records : Area(z.bg_wkt) = 0)
                    => IsWithinEdges(record.block_group, record.zipcode) # {}

C20_Witness ==
    /\ last.op = "create_block_group_zipcode_intersection"
    /\ \E record \in last.records : Area(record.bg_wkt) = 0
    /\ \E record \in last.records : Area(record.bg_wkt) # 0
    /\ last.pre_rels = {}
    /\ rels # {}
    /\ Len(last.failed_instances) = 1

\* ------------------------------ properties of the node builders -------------

LastIsNodeBuilder ==
    last.op \in {"create_block_group_nodes", "create_zipcode_nodes",
                 "create_city_nodes"}

\* C13: a node builder never raises; every failure entry carries the key of the
\* entity that failed; the successes and the failure entries add up to the
\* size of the batch.
C13_FailureIsolation ==
    LastIsNodeBuilder =>
        /\ last.raised = "none"
        /\ last.success_count + Len(last.failed_instances) = last.batch_size
        /\ \A i \in 1..Len(last.failed_instances) :
              last.failed_instances[i].key
                 = last.call.keys[last.failed_instances[i].row]

\* ------------------------------ properties of the populate script -----------

PopulateIsRunning == pop.pc \notin {"idle", "aborted"}

\* C12: in a run with cleanup enabled the constraints of the schema are in the
\* store whenever a component's builders have upserted a node, and when the
\* run ends.
C12_ConstraintsSurviveCleanup ==
    (pop.cleanup /\ PopulateIsRunning) =>
        /\ (last.op \in pop.selected /\ last.upserts > 0)
              => SchemaConstraints \subseteq cons
        /\ pop.pc = "done" => SchemaConstraints \subseteq cons

\* C15: no exception leaves a component of a populate run, so the run is never
\* cut short before the components selected after it.
C15_ComponentFailureContained ==
    /\ pop.raised = "none"
    /\ pop.pc # "aborted"

\* ------------------------------ properties of the adjacency lists -----------

\* C30: one create_relationship call made for an entry of an adjacency list
\* writes relationships to at most one counterpart node.
C30_OneCounterpartPerEntry ==
    (LastIsRelUpsert /\ last.call.rel_type = "HAS_NEIGHBOR") =>
        Cardinality({r.end : r \in WrittenRels}) <= 1

\* ------------------------------ properties of a component's cleanup ---------

\* the nodes of the labels that belong to the other components
ForeignNodes(ns) == {n \in ns : n.label \in {"BlockGroup", "Zipcode", "Business"}}

\* C28: populate_geoenrichments with cleanup enabled leaves every BlockGroup,
\* Zipcode and Business node and every spatial layer as they were.
C28_EnrichmentCleanupIsLocal ==
    (last.op = "geoenrichments" /\ pop.cleanup) =>
        /\ ForeignNodes(nodes) = ForeignNodes(last.pre_nodes)
        /\ layers = last.pre_layers

\* ------------------------------ properties of the zipcode builder -----------

ZipcodeNodes(ns, zipcode) ==
    {n \in ns : n.label = "Zipcode" /\ Get(n.props, "zipcode_number") = zipcode}

\* the zipcodes a table of rows with a zipcodes list refers to
ListedZipcodes(df) ==
    UNION {{df[i].zipcodes[j] : j \in 1..Len(df[i].zipcodes)} : i \in 1..Len(df)}

\* C21: after create_zipcode_nodes every zipcode that the city table, the
\* neighborhood table or the zipcode table refers to has exactly one Zipcode
\* node, whether one source or several refer to it and whether the store held
\* the node before the call or not.
C21_OneNodePerZipcode ==
    last.op = "create_zipcode_nodes" =>
        \A zipcode \in ListedZipcodes(last.call.city_df)
                         \cup ListedZipcodes(last.call.neighborhood_df)
                         \cup {last.call.batch[i].ZIP : i \in 1..Len(last.call.batch)} :
            Cardinality(ZipcodeNodes(nodes, zipcode)) = 1

C21_Witness ==
    /\ last.op = "create_zipcode_nodes"
    /\ "z1" \in ListedZipcodes(last.call.city_df)
                   \cap ListedZipcodes(last.call.neighborhood_df)
                   \cap {last.call.batch[i].ZIP : i \in 1..Len(last.call.batch)}
    /\ ZipcodeNodes(last.pre_nodes, "z1") # {}
    /\ Cardinality(ZipcodeNodes(nodes, "z1")) = 1
    /\ Cardinality(ZipcodeNodes(nodes, "z2")) = 1

\* ------------------------------ enrichment edges and category nodes ---------

CategoryNodes(ns) ==
    {n \in ns : n.label \in {EnrichmentTypes[i] : i \in 1..Len(EnrichmentTypes)}}

\* the node carries a value of the enum list its label has in enum
InCrossProduct(n, enum) ==
    \E j \in 1..Len(enum[n.label]) :
        n.props = [k \in KeyOf(n.label) |-> enum[n.label][j]]

\* the rows of the table whose population level has no category node
RowsWithoutPopulationNode ==
    {i \in 1..Len(last.call.df) :
        ~\E n \in nodes :
            /\ n.label = "TotalPopulation"
            /\ n.props = [level |-> IF last.call.df[i].totpop_cy < 1000 THEN "LOW"
                                    ELSE IF last.call.df[i].totpop_cy <= 2000
                                    THEN "MEDIUM" ELSE "HIGH"]}

Div(a, b) == [num |-> a, den |-> b]

\* x < n / d  and  x <= n / d  on floats: every comparison with nan is False,
\* and inf is below nothing
Below(x, n, d, strict) ==
    /\ x.den > 0
    /\ IF strict THEN x.num * d < n * x.den ELSE x.num * d <= n * x.den

\* the columns prepare_data adds to one row; weighted_age is kept doubled (the
\* midpoints 2.5, 7.5, .. 87.5 are 5, 15, .. 175 halves), so avg_age is
\* weighted_age / totpop_cy = (2 * weighted_age) / (2 * totpop_cy)
prepare_data(row) ==
    LET combined_population == [i \in 1..Len(row.male) |-> row.male[i] + row.fem[i]]
        RECURSIVE Sum(_)
        Sum(i) == IF i = 0 THEN 0
                  ELSE combined_population[i] * (10 * i - 5) + Sum(i - 1)
    IN [totpop_cy |-> row.totpop_cy, popgrwcyfy |-> row.popgrwcyfy,
        male |-> row.male, fem |-> row.fem,
        avg_age |-> Div(Sum(Len(combined_population)), 2 * row.totpop_cy),
        BASIC |-> row.nohs_cy + row.somehs_cy,
        SECONDARY |-> row.hsgrad_cy + row.ged_cy + row.smcoll_cy,
        HIGHER |-> row.asscdeg_cy + row.bachdeg_cy + row.graddeg_cy]

\* mutant of determine_growth_rate: the upper bound of every bucket is excluded
determine_growth_rate_strict(value) ==
    LET category == IF Below(value, 0, 1, TRUE) THEN "NEGATIVE"
                    ELSE IF Below(value, 1, 1, TRUE) THEN "LOW"
                    ELSE IF Below(value, 2, 1, TRUE) THEN "MODERATE"
                    ELSE IF Below(value, 3, 1, TRUE) THEN "HIGH"
                    ELSE "VERY_HIGH"
    IN [category_combinations |-> <<[growth_rate |-> category]>>,
        source_values |-> <<value>>]

determine_growth_rate(value) ==
    LET category == IF Below(value, 0, 1, TRUE) THEN "NEGATIVE"
                    ELSE IF Below(value, 1, 1, FALSE) THEN "LOW"
                    ELSE IF Below(value, 2, 1, FALSE) THEN "MODERATE"
                    ELSE IF Below(value, 3, 1, FALSE) THEN "HIGH"
                    ELSE "VERY_HIGH"
    IN [category_combinations |-> <<[growth_rate |-> category]>>,
        source_values |-> <<value>>]

determine_age_average(value) ==
    LET category == IF Below(value, 5, 1, TRUE) THEN "0-4"
                    ELSE IF Below(value, 15, 1, TRUE) THEN "5-14"
                    ELSE IF Below(value, 25, 1, TRUE) THEN "15-24"
                    ELSE IF Below(value, 45, 1, TRUE) THEN "25-44"
                    ELSE IF Below(value, 65, 1, TRUE) THEN "45-64"
                    ELSE "65+"
    IN [category_combinations |-> <<[group |-> category]>>,
        source_values |-> <<value>>]

\* the age groups in the order of the age_group_aggregations dict, each with
\* the five-year columns it adds up
determine_age_group_representations(row) ==
    LET total_population == row.totpop_cy
        get_representation_level(x) ==
            IF Below(x, 5, 100, TRUE) THEN "VERY_LOW"
            ELSE IF Below(x, 10, 100, TRUE) THEN "LOW"
            ELSE IF Below(x, 20, 100, TRUE) THEN "MODERATE"
            ELSE IF Below(x, 30, 100, TRUE) THEN "HIGH"
            ELSE "DOMINANT"
        groups == <<[group |-> "0-4", from |-> 1, to |-> 1],
                    [group |-> "5-14", from |-> 2, to |-> 3],
                    [group |-> "15-24", from |-> 4, to |-> 5],
                    [group |-> "25-44", from |-> 6, to |-> 9],
                    [group |-> "45-64", from |-> 10, to |-> 13],
                    [group |-> "65+", from |-> 14, to |-> 18]>>
        RECURSIVE Columns(_, _)
        Columns(i, to) == IF i > to THEN 0
                          ELSE row.male[i] + row.fem[i] + Columns(i + 1, to)
        representation(g) == Div(Columns(groups[g].from, groups[g].to),
                                 total_population)
    IN  IF total_population = 0
        THEN [category_combinations |->
                 [g \in 1..Len(groups) |->
                     [group |-> groups[g].group, representation |-> "VERY_LOW"]],
              source_values |-> [g \in 1..Len(groups) |-> Div(0, 1)]]
        ELSE [category_combinations |->
                 [g \in 1..Len(groups) |->
                     [group |-> groups[g].group,
                      representation |-> get_representation_level(representation(g))]],
              source_values |-> [g \in 1..Len(groups) |-> representation(g)]]

\* mutant of determine_education_level: the total population is not looked at
determine_education_level_unguarded(row) ==
    LET levels == <<"BASIC", "SECONDARY", "HIGHER">>
        representation(l) == Div(row[levels[l]], row.totpop_cy)
    IN [category_combinations |->
           [l \in 1..Len(levels) |->
               [level |-> levels[l],
                representation |->
                    IF Below(representation(l), 5, 100, TRUE) THEN "VERY_LOW"
                    ELSE IF Below(representation(l), 15, 100, TRUE) THEN "LOW"
                    ELSE IF Below(representation(l), 30, 100, TRUE) THEN "MODERATE"
                    ELSE IF Below(representation(l), 50, 100, TRUE) THEN "HIGH"
                    ELSE "VERY_HIGH"]],
        source_values |-> [l \in 1..Len(levels) |-> representation(l)]]

determine_education_level(row) ==
    LET levels == <<"BASIC", "SECONDARY", "HIGHER">>
        get_representation_level(x) ==
            IF Below(x, 5, 100, TRUE) THEN "VERY_LOW"
            ELSE IF Below(x, 15, 100, TRUE) THEN "LOW"
            ELSE IF Below(x, 30, 100, TRUE) THEN "MODERATE"
            ELSE IF Below(x, 50, 100, TRUE) THEN "HIGH"
            ELSE "VERY_HIGH"
        total_pop == row.totpop_cy
        representation(l) == Div(row[levels[l]], total_pop)
    IN  IF total_pop = 0
        THEN [category_combinations |->
                 [l \in 1..Len(levels) |->
                     [level |-> levels[l], representation |-> "VERY_LOW"]],
              source_values |-> [l \in 1..Len(levels) |-> Div(0, 1)]]
        ELSE [category_combinations |->
                 [l \in 1..Len(levels) |->
                     [level |-> levels[l],
                      representation |-> get_representation_level(representation(l))]],
              source_values |-> [l \in 1..Len(levels) |-> representation(l)]]

\* rows of the enrichment table: a total population spread over the male and
\* female five-year columns (all in the first column, all in the column
\* 60-64, all in the column 65-69, or split between the last two), a growth
\* rate in hundredths, and the educational attainment counts
ClassifierRows ==
    LET Column(k, n) == [i \in 1..18 |-> IF i = k THEN n ELSE 0]
        Ages == {[totpop_cy |-> n,
                  male |-> Column(shape[1], n \div 2),
                  fem |-> Column(shape[2], n - (n \div 2))] :
                    n \in {0, 999, 1000, 2000, 2001},
                    shape \in {<<1, 1>>, <<13, 13>>, <<14, 14>>, <<13, 14>>}}
        Rates == {Div(h, 100) : h \in {0 - 1, 0, 100, 101, 200, 201, 300, 301}}
        Attainment ==
            {[nohs_cy |-> 0, somehs_cy |-> 0, hsgrad_cy |-> 0, ged_cy |-> 0,
              smcoll_cy |-> 0, asscdeg_cy |-> 0, bachdeg_cy |-> 0, graddeg_cy |-> 0],
             [nohs_cy |-> 40, somehs_cy |-> 9, hsgrad_cy |-> 100, ged_cy |-> 0,
              smcoll_cy |-> 50, asscdeg_cy |-> 100, bachdeg_cy |-> 200,
              graddeg_cy |-> 200],
             [nohs_cy |-> 50, somehs_cy |-> 0, hsgrad_cy |-> 100, ged_cy |-> 49,
              smcoll_cy |-> 0, asscdeg_cy |-> 300, bachdeg_cy |-> 0,
              graddeg_cy |-> 0]}
    IN {[totpop_cy |-> a.totpop_cy, male |-> a.male, fem |-> a.fem,
         popgrwcyfy |-> r,
         nohs_cy |-> e.nohs_cy, somehs_cy |-> e.somehs_cy,
         hsgrad_cy |-> e.hsgrad_cy, ged_cy |-> e.ged_cy, smcoll_cy |-> e.smcoll_cy,
         asscdeg_cy |-> e.asscdeg_cy, bachdeg_cy |-> e.bachdeg_cy,
         graddeg_cy |-> e.graddeg_cy] : a \in Ages, r \in Rates, e \in Attainment}

\* the enrichments dict create_enrichment_relationships builds for one row of
\* the prepared table
Classify ==
    /\ vin.op = "classify"
    /\ ~vin.done
    /\ LET row == prepare_data(vin.row)
       IN vout' = [TotalPopulation |-> determine_population_level(row.totpop_cy),
                   PopulationGrowth |-> determine_growth_rate(row.popgrwcyfy),
                   AgeAverage |-> determine_age_average(row.avg_age),
                   AgeGroup |-> determine_age_group_representations(row),
                   EducationLevel |-> determine_education_level(row)]
    /\ vin' = [vin EXCEPT !.done = TRUE]
    /\ UNCHANGED <<nodes, rels, last, runs, cons, layers, pop>>

InitClassify ==
    /\ nodes = {}
    /\ rels = {}
    /\ last = NoCall
    /\ runs = 0
    /\ vin \in {[op |-> "classify", row |-> row, done |-> FALSE] :
                  row \in ClassifierRows}
    /\ vout = "pending"
    /\ cons = {}
    /\ layers = EmptyDict
    /\ pop = NoPopulate

SpecClassify == InitClassify /\ [][Classify]_vars

\* ------------------------------ properties of the classifiers ---------------

Classified == vin.op = "classify" /\ vin.done

\* the growth rate of the classified row, in hundredths
GrowthHundredths == vin.row.popgrwcyfy.num

\* C23: the population classifier and the growth-rate classifier give every
\* value the one bucket of the threshold table: population below 1000 LOW,
\* 1000 to 2000 MEDIUM, above 2000 HIGH; growth rate below 0 NEGATIVE, 0 to 1
\* LOW, above 1 up to 2 MODERATE, above 2 up to 3 HIGH, above 3 VERY_HIGH.
C23_ThresholdTables ==
    Classified =>
        /\ vout.TotalPopulation.category_combinations =
              <<[level |-> IF vin.row.totpop_cy <= 999 THEN "LOW"
                           ELSE IF vin.row.totpop_cy \in 1000..2000 THEN "MEDIUM"
                           ELSE "HIGH"]>>
        /\ vout.TotalPopulation.source_values = <<vin.row.totpop_cy>>
        /\ vout.PopulationGrowth.category_combinations =
              <<[growth_rate |-> IF GrowthHundredths <= 0 - 1 THEN "NEGATIVE"
                                 ELSE IF GrowthHundredths \in 0..100 THEN "LOW"
                                 ELSE IF GrowthHundredths \in 101..200 THEN "MODERATE"
                                 ELSE IF GrowthHundredths \in 201..300 THEN "HIGH"
                                 ELSE "VERY_HIGH"]>>
        /\ vout.PopulationGrowth.source_values = <<vin.row.popgrwcyfy>>

\* population 2000 is MEDIUM and growth rate 1.0 is LOW
C23_Witness ==
    /\ Classified
    /\ vin.row.totpop_cy = 2000
    /\ GrowthHundredths = 100
    /\ vout.TotalPopulation.category_combinations[1].level = "MEDIUM"
    /\ vout.PopulationGrowth.category_combinations[1].growth_rate = "LOW"

\* C24: a row whose total population is 0 gets the six age-group buckets and
\* the three education buckets at VERY_LOW, each with source value 0.0; no
\* value of these buckets is a quotient by the population.
C24_ZeroPopulationGuard ==
    (Classified /\ vin.row.totpop_cy = 0) =>
        /\ vout.AgeGroup.category_combinations =
              [g \in 1..6 |->
                  [group |-> <<"0-4", "5-14", "15-24", "25-44", "45-64", "65+">>[g],
                   representation |-> "VERY_LOW"]]
        /\ vout.AgeGroup.source_values = [g \in 1..6 |-> [num |-> 0, den |-> 1]]
        /\ vout.EducationLevel.category_combinations =
              [l \in 1..3 |->
                  [level |-> <<"BASIC", "SECONDARY", "HIGHER">>[l],
                   representation |-> "VERY_LOW"]]
        /\ vout.EducationLevel.source_values = [l \in 1..3 |-> [num |-> 0, den |-> 1]]

\* a row of population 0 that reports educational attainment counts
C24_Witness ==
    /\ Classified
    /\ vin.row.totpop_cy = 0
    /\ vin.row.bachdeg_cy > 0
    /\ Len(vout.AgeGroup.category_combinations) = 6
    /\ vout.EducationLevel.category_combinations[3].representation = "VERY_LOW"

\* twice the sum of the ages of the row, every person counted at the midpoint
\* of the five-year column
WeightedAge2 ==
    LET RECURSIVE Sum(_)
        Sum(i) == IF i = 0 THEN 0
                  ELSE (vin.row.male[i] + vin.row.fem[i]) * (10 * i - 5) + Sum(i - 1)
    IN Sum(18)

\* the population-weighted average age of the row lies in [lo, hi)
AverageAgeIn(lo, hi) ==
    /\ vin.row.totpop_cy > 0
    /\ 2 * lo * vin.row.totpop_cy <= WeightedAge2
    /\ WeightedAge2 < 2 * hi * vin.row.totpop_cy

\* C29: the AgeAverage bucket of a row is the bucket whose interval contains
\* the population-weighted average age of the row; 65+ is assigned only when
\* that average is at least 65, so not to a row of total population 0.
C29_AgeAverageBucket ==
    Classified =>
        LET group == vout.AgeAverage.category_combinations[1].group
        IN /\ group = "0-4" => AverageAgeIn(0, 5)
           /\ group = "5-14" => AverageAgeIn(5, 15)
           /\ group = "15-24" => AverageAgeIn(15, 25)
           /\ group = "25-44" => AverageAgeIn(25, 45)
           /\ group = "45-64" => AverageAgeIn(45, 65)
           /\ group = "65+" => AverageAgeIn(65, 200)

\* ------------------------------ properties of the component selection -------

\* the components the options of the run select
SelectedComponents ==
    {component \in {"block_groups", "administrative_topology", "businesses",
                    "geoenrichments"} :
        IF ~pop.include.none THEN component \in pop.include.names
        ELSE IF ~pop.exclude.none THEN component \notin pop.exclude.names
        ELSE TRUE}

\* C25: a populate run executes exactly the components its options select (all
\* four without options, the listed ones with include, all but the listed ones
\* with exclude), and a run given both options ends with an error before the
\* store is touched.
C25_ExactlyTheSelectedComponents ==
    /\ (~pop.include.none /\ ~pop.exclude.none) =>
          /\ pop.pc = "rejected"
          /\ last.raised = "ValueError"
          /\ pop.executed = {}
          /\ nodes = last.pre_nodes /\ rels = last.pre_rels
          /\ cons = last.pre_cons /\ layers = last.pre_layers
    /\ pop.pc \in {"done", "aborted"} => pop.executed = SelectedComponents
    /\ pop.executed \subseteq SelectedComponents

\* ------------------------------ properties of the businesses component ------

LastIsBusinessesRun == last.op = "populate_businesses"

\* the places the run handed to create_business_nodes, with their block group
PlacedBusinesses ==
    {[business |-> last.batches[i].bg_businesses[j],
      ct_block_group |-> last.batches[i].ct_block_group] :
        <<i, j>> \in {p \in (1..Len(last.batches)) \X (1..3) :
                        p[2] <= Len(last.batches[p[1]].bg_businesses)}}

\* the Zipcode nodes to which the run wrote a LOCATED_IN relationship of the
\* business that did not exist before
NewZipcodesOf(business) ==
    {z \in nodes :
        /\ z.label = "Zipcode"
        /\ \E r \in rels \ last.pre_rels : \E b \in nodes :
              /\ b.label = "Business" /\ Get(b.props, "business_id") = business.id
              /\ r.type = "LOCATED_IN" /\ r.start = b.id /\ r.end = z.id}

\* the zipcodes linked to the block group whose polygon contains the place
ContainingLinked(p) ==
    {z \in nodes :
        /\ z.label = "Zipcode"
        /\ \E bg \in nodes : \E r \in rels :
              /\ bg.label = "BlockGroup"
              /\ Get(bg.props, "ct_block_group") = p.ct_block_group
              /\ r.type = "IS_WITHIN" /\ r.start = bg.id /\ r.end = z.id
        /\ \/ z.props.wkt = "w1" /\ p.business.longitude = "x2"
           \/ z.props.wkt = "w2" /\ p.business.longitude \in {"x2", "x4"}}

\* zipcode number a comes before b in the order of the store
Before(a, b) ==
    \E i, j \in 1..Len(last.call.zipcodes) :
        i < j /\ last.call.zipcodes[i] = a /\ last.call.zipcodes[j] = b

\* C26: the LOCATED_IN relationship a run writes from a business to a Zipcode
\* goes to a Zipcode that its block group is IS_WITHIN and whose polygon
\* contains the point of the business, the first such in the order of the
\* store; a run writes at most one for a business, and none when no linked
\* polygon contains the point, while the business is still counted.
C26_ZipcodeOfBusiness ==
    LastIsBusinessesRun =>
        \A p \in PlacedBusinesses :
            /\ Cardinality(NewZipcodesOf(p.business)) <= 1
            /\ \A z \in NewZipcodesOf(p.business) :
                  /\ z \in ContainingLinked(p)
                  /\ \A y \in ContainingLinked(p) :
                        y # z => Before(z.props.zipcode_number,
                                        y.props.zipcode_number)
            /\ (ContainingLinked(p) = {} /\ p.business.id \notin last.call.down) =>
                  /\ NewZipcodesOf(p.business) = {}
                  /\ \E i \in 1..Len(last.batches) :
                        /\ last.batches[i].ct_block_group = p.ct_block_group
                        /\ \A f \in 1..Len(last.batches[i].failed_instances) :
                              last.batches[i].failed_instances[f].key
                                 # p.business.display_name
                        /\ last.batches[i].success_count
                              + Len(last.batches[i].failed_instances)
                                 = Len(last.batches[i].bg_businesses)

\* the store returns z2 before z1: the business in both polygons gets its
\* relationship to z2, the business in no polygon gets none and is counted
C26_Witness ==
    /\ LastIsBusinessesRun
    /\ last.call.zipcodes = <<"z2", "z1">>
    /\ \E p \in PlacedBusinesses :
          /\ p.business.id = "b2"
          /\ Cardinality(ContainingLinked(p)) = 2
          /\ \E z \in NewZipcodesOf(p.business) : z.props.zipcode_number = "z2"
    /\ \E p \in PlacedBusinesses :
          /\ p.business.id = "b3"
          /\ ContainingLinked(p) = {}
          /\ NewZipcodesOf(p.business) = {}
          /\ \E b \in nodes \ last.pre_nodes : Get(b.props, "business_id") = "b3"

\* C27: the totals of populate_businesses are the sum of the success counts of
\* the batches of all block groups and the failures of all batches, each once.
C27_TotalsAccumulate ==
    LastIsBusinessesRun =>
        LET RECURSIVE SumCounts(_)
            SumCounts(i) == IF i = 0 THEN 0
                            ELSE last.batches[i].success_count + SumCounts(i - 1)
            RECURSIVE AllFailed(_)
            AllFailed(i) == IF i = 0 THEN <<>>
                            ELSE AllFailed(i - 1) \o last.batches[i].failed_instances
        IN /\ last.business_count = SumCounts(Len(last.batches))
           /\ last.failed_instances = AllFailed(Len(last.batches))

====
